---- MODULE Spec2Model ----
(***************************************************************************)
(* A model of the authorization core of keypointjs: the Keypoint Store     *)
(* with its secondary indexes, the Keypoint Validator, the Scope Manager,  *)
(* the Policy Engine with its rule wrapper, and the rate-limit rule.       *)
(*                                                                         *)
(* JavaScript values are modelled as follows.  Strings are strings; the    *)
(* empty string "" is falsy as in JavaScript.  A property that is absent   *)
(* (undefined) is the string Undefined.  A Date is a natural number of     *)
(* seconds, and an expiresAt of 0 stands for null (Keypoint's constructor  *)
(* stores `data.expiresAt || null`).  Arrays whose order no operation      *)
(* reads (a keypoint's scopes) are sets.  A JavaScript Map is a function   *)
(* whose DOMAIN is the set of keys the Map holds.                          *)
(***************************************************************************)
EXTENDS Integers, Sequences, FiniteSets, TLC

\* ------------------------------------------------------------------ bounds

\* The Validator's clock never runs past MaxTime seconds.
MaxTime == 2

\* The rate limiter's clock never runs past MaxClock seconds.
MaxClock == 120

\* At most MaxRules rules are registered with the PolicyEngine.
MaxRules == 3

\* The rate-limit rule's evaluator is invoked at most MaxCalls times.
MaxCalls == 4

\* At most MaxEntries rule results are added to an AccessDecision.
MaxEntries == 2

\* At most MaxSaves saveToFile calls are in flight at once.
MaxSaves == 2

\* At most MaxRequests requests are handled by the server.
MaxRequests == 2

\* The number of middlewares in the PluginManager's chain.
MaxPlugins == 3

\* ---------------------------------------------------------------- JS values

Undefined == "<undefined>"

\* JavaScript truthiness of a string-valued property.
Truthy(x) == x # Undefined /\ x # ""

MapHas(m, k) == k \in DOMAIN m

\* Map.prototype.set
MapSet(m, k, v) == [x \in DOMAIN m \cup {k} |-> IF x = k THEN v ELSE m[x]]

\* Map.prototype.delete
MapDelete(m, k) == [x \in DOMAIN m \ {k} |-> m[x]]

EmptyMap == [x \in {} |-> {}]

\* ------------------------------------------------------------ input domains

KeyIds == {"k1", "k2"}
Secrets == {"", "s1"}
Names == {"", "n1"}
ScopeNames == {"admin", "read"}
ExpiryTimes == {0, 1}

\* A keypoint as `new Keypoint(data)` builds it.  inst records whether the
\* object is a Keypoint instance, that is, whether it carries the prototype
\* methods hasScope, isExpired, validateOrigin and validateProtocol.  policy
\* is metadata.policy, undefined when data carries no metadata.
Keypoint(keyId, secret, name, scopes, expiresAt) ==
  [keyId |-> keyId, secret |-> secret, name |-> name, scopes |-> scopes,
   expiresAt |-> expiresAt, inst |-> TRUE, policy |-> Undefined,
   rateLimit |-> [requests |-> 100, window |-> 60]]

\* new Keypoint({..., metadata: { policy: policyName }})
KeypointWithPolicy(kp, policyName) == [kp EXCEPT !.policy = policyName]

\* new Keypoint({..., rateLimit: { requests, window }})
KeypointWithRateLimit(kp, requests, window) ==
  [kp EXCEPT !.rateLimit = [requests |-> requests, window |-> window]]

Keypoints ==
  { Keypoint(k, s, n, sc, e) :
      k \in KeyIds, s \in Secrets, n \in Names, sc \in SUBSET ScopeNames,
      e \in ExpiryTimes }

\* The keypoints the Store calls are tried with: expiry plays no part in them.
StoreKeypoints == { kp \in Keypoints : kp.expiresAt = 0 }

\* Keypoint.hasScope
KeypointHasScope(kp, requiredScope) ==
  "*" \in kp.scopes \/ requiredScope \in kp.scopes

\* Keypoint.validateProtocol.  No keypoint of the model is given protocols, so
\* each has the constructor's default ['https'].
KeypointValidateProtocol(kp, protocol) == protocol \in {"https"}

\* Keypoint.isExpired: `this.expiresAt && new Date() > this.expiresAt`, which
\* is null (not false) for a keypoint that never expires.
KeypointIsExpired(kp, t) ==
  IF kp.expiresAt = 0 THEN "null"
  ELSE IF t > kp.expiresAt THEN "true" ELSE "false"

VARIABLES
  now,        \* the clock, in seconds
  store,      \* KeypointStorage.store: keyId -> keypoint
  bySecret,   \* indexes.bySecret: secret -> keyId
  byName,     \* indexes.byName: name -> set of keyId
  byScope,    \* indexes.byScope: scope -> set of keyId
  storeRet,   \* what the last Store call returned
  ctx,        \* the request context validate is working on, and its progress
  scopeHierarchy,  \* ScopeManager.scopeHierarchy: scope -> set of child scopes
  scopeRet,   \* the last ScopeManager.hasScope call and what it returned
  rules,      \* PolicyEngine.rules, in registration order
  policies,   \* PolicyEngine.policies: name -> policy function
  ev,         \* per request: the progress of PolicyEngine.evaluate(context)
  requests,   \* the rate-limit rule's closure Map: key -> timestamps
  rateLog,    \* every run of the rate-limit evaluator: key, time, outcome
  decisions,  \* two AccessDecision objects, a and b
  merged,     \* the last AccessDecision.merge call and what it returned
  listRet,    \* the last KeypointStorage.list call and what it returned
  file,       \* the content of the file a FileKeypointStorage persists to
  saves,      \* the saveToFile calls in flight, in the order they were issued
  cleanup,    \* the progress of FileKeypointStorage.cleanupExpired
  store2,     \* the store of a second FileKeypointStorage on the same path
  fileRet,    \* the last get on the second FileKeypointStorage
  pipe,       \* the progress of handleRequest through the middleware chain
  limits,     \* RateLimiter.limits: limit key -> count
  limiterLog, \* every run of RateLimiter.process: keyId, time, outcome
  ops,        \* the Store calls in flight, one per task, and their progress
  pm,         \* the PluginManager: plugins, middlewareChain, and its last call
  ws          \* the WebSocketGuard: connections, sockets, callbacks made

storeVars == <<store, bySecret, byName, byScope, storeRet>>
scopeVars == <<scopeHierarchy, scopeRet>>
policyVars == <<rules, policies, ev, requests, rateLog>>
decisionVars == <<decisions, merged>>
fileVars == <<file, saves, cleanup, store2, fileRet>>
limiterVars == <<limits, limiterLog>>
lateVars == <<ops, pm, ws>>

\* What each component's actions leave alone.
notStore ==
  <<now, ctx, scopeVars, policyVars, decisionVars, listRet, fileVars, pipe,
    limiterVars, lateVars>>
notValidator ==
  <<now, storeVars, scopeVars, policyVars, decisionVars, listRet, fileVars,
    pipe, limiterVars, lateVars>>
notClock ==
  <<storeVars, ctx, scopeVars, policyVars, decisionVars, listRet, fileVars,
    pipe, limiterVars, lateVars>>
notScope ==
  <<now, storeVars, ctx, policyVars, decisionVars, listRet, fileVars, pipe,
    limiterVars, lateVars>>
notPolicy ==
  <<now, storeVars, ctx, scopeVars, decisionVars, listRet, fileVars, pipe,
    limiterVars, lateVars>>
notDecision ==
  <<now, storeVars, ctx, scopeVars, policyVars, listRet, fileVars, pipe,
    limiterVars, lateVars>>
notList ==
  <<now, storeVars, ctx, scopeVars, policyVars, decisionVars, fileVars, pipe,
    limiterVars, lateVars>>
notFile ==
  <<now, storeRet, ctx, scopeVars, policyVars, decisionVars, listRet, pipe,
    limiterVars, lateVars>>
notLimiter ==
  <<now, storeVars, ctx, scopeVars, policyVars, decisionVars, listRet,
    fileVars, pipe, lateVars>>

\* ------------------------------------------------------------------- Store

Storage == [store |-> store, bySecret |-> bySecret, byName |-> byName,
            byScope |-> byScope]

\* KeypointStorage.set, past its keyId check.
StorageSet(S, kp) ==
  [store |-> MapSet(S.store, kp.keyId, kp),
   bySecret |-> IF Truthy(kp.secret)
                THEN MapSet(S.bySecret, kp.secret, kp.keyId)
                ELSE S.bySecret,
   byName |-> IF Truthy(kp.name)
              THEN MapSet(S.byName, kp.name,
                          (IF MapHas(S.byName, kp.name)
                           THEN S.byName[kp.name] ELSE {}) \cup {kp.keyId})
              ELSE S.byName,
   byScope |-> [s \in DOMAIN S.byScope \cup kp.scopes |->
                  IF s \in kp.scopes
                  THEN (IF MapHas(S.byScope, s) THEN S.byScope[s] ELSE {})
                       \cup {kp.keyId}
                  ELSE S.byScope[s]]]

\* KeypointStorage.removeIndexes
RemoveIndexes(S, kp) ==
  [store |-> S.store,
   bySecret |-> IF Truthy(kp.secret) THEN MapDelete(S.bySecret, kp.secret)
                ELSE S.bySecret,
   byName |-> IF Truthy(kp.name) /\ MapHas(S.byName, kp.name)
              THEN IF S.byName[kp.name] \ {kp.keyId} = {}
                   THEN MapDelete(S.byName, kp.name)
                   ELSE MapSet(S.byName, kp.name,
                               S.byName[kp.name] \ {kp.keyId})
              ELSE S.byName,
   byScope |-> [s \in { x \in DOMAIN S.byScope :
                          x \notin kp.scopes
                          \/ S.byScope[x] \ {kp.keyId} # {} } |->
                  IF s \in kp.scopes THEN S.byScope[s] \ {kp.keyId}
                  ELSE S.byScope[s]]]

\* `{ ...existing, ...updates, updatedAt }`: an object literal, so the result
\* is a plain object whatever existing was.
MergeUpdates(existing, updates) ==
  [f \in DOMAIN existing |->
     IF f = "inst" THEN FALSE
     ELSE IF f \in DOMAIN updates THEN updates[f] ELSE existing[f]]

\* KeypointStorage.update, past its lookup.
StorageUpdate(S, keyId, updates) ==
  StorageSet(RemoveIndexes(S, S.store[keyId]),
             MergeUpdates(S.store[keyId], updates))

\* KeypointStorage.delete, past its lookup.
StorageDelete(S, keyId) ==
  LET R == RemoveIndexes(S, S.store[keyId])
  IN  [R EXCEPT !.store = MapDelete(R.store, keyId)]

\* KeypointStorage.get.  A nullable object reference is a set: {} is null and
\* {kp} is the object kp.
StorageGet(S, keyId) ==
  IF MapHas(S.store, keyId) THEN {S.store[keyId]} ELSE {}

\* KeypointStorage.getBySecret: `keyId ? await this.get(keyId) : null`
StorageGetBySecret(S, secret) ==
  IF MapHas(S.bySecret, secret) /\ Truthy(S.bySecret[secret])
  THEN StorageGet(S, S.bySecret[secret])
  ELSE {}

\* KeypointStorage.getByScope
GetByScope(scope) ==
  IF ~MapHas(byScope, scope) THEN {}
  ELSE { store[k] : k \in { x \in byScope[scope] : MapHas(store, x) } }

Install(S) ==
  /\ store' = S.store
  /\ bySecret' = S.bySecret
  /\ byName' = S.byName
  /\ byScope' = S.byScope

UpdFields == {"keyId", "secret", "name", "scopes"}

\* The partial objects update is called with: no field, or one of the fields.
Updates ==
  { [f \in F |-> full[f]] :
      full \in [keyId : KeyIds, secret : Secrets, name : Names,
                scopes : SUBSET ScopeNames],
      F \in { G \in SUBSET UpdFields : Cardinality(G) <= 1 } }

\* await storage.set(keypoint)
Set(kp) ==
  /\ Install(StorageSet(Storage, kp))
  /\ storeRet' = [op |-> "set", ret |-> "true"]
  /\ UNCHANGED notStore

\* await storage.set(keypoint) for a keypoint without keyId
SetNoKeyId ==
  /\ storeRet' = [op |-> "set", ret |-> "throws"]
  /\ UNCHANGED <<store, bySecret, byName, byScope>>
  /\ UNCHANGED notStore

\* await storage.update(keyId, updates)
Update(keyId, updates) ==
  /\ IF MapHas(store, keyId)
     THEN /\ Install(StorageUpdate(Storage, keyId, updates))
          /\ storeRet' = [op |-> "update", ret |-> "true"]
     ELSE /\ UNCHANGED <<store, bySecret, byName, byScope>>
          /\ storeRet' = [op |-> "update", ret |-> "false"]
  /\ UNCHANGED notStore

\* await storage.delete(keyId)
Delete(keyId) ==
  /\ IF MapHas(store, keyId)
     THEN /\ Install(StorageDelete(Storage, keyId))
          /\ storeRet' = [op |-> "delete", ret |-> "true"]
     ELSE /\ UNCHANGED <<store, bySecret, byName, byScope>>
          /\ storeRet' = [op |-> "delete", ret |-> "false"]
  /\ UNCHANGED notStore

StoreInit ==
  /\ store = EmptyMap
  /\ bySecret = EmptyMap
  /\ byName = EmptyMap
  /\ byScope = EmptyMap
  /\ storeRet = [op |-> "new", ret |-> "true"]

\* What the Store calls in flight leave alone.
notOps ==
  <<now, storeRet, ctx, scopeVars, policyVars, decisionVars, listRet, fileVars,
    pipe, limiterVars, pm, ws>>

Tasks == {"t1", "t2"}

\* A task that has made no call.  existing is what `await this.get(keyId)`
\* gave the call, arg the keypoint or the updates it was called with.
IdleOp ==
  [op |-> "none", pc |-> "idle", keyId |-> "", arg |-> EmptyMap,
   existing |-> {}, ret |-> Undefined]

\* storage.update(keyId, updates), up to `await this.get(keyId)`, and
\* storage.delete(keyId), up to the same await: get has read the store.
StartUpdate(t, keyId, updates) ==
  /\ ops[t].pc = "idle"
  /\ ops' = [ops EXCEPT ![t] =
               [op |-> "update", pc |-> "afterGet", keyId |-> keyId,
                arg |-> updates, existing |-> StorageGet(Storage, keyId),
                ret |-> Undefined]]
  /\ UNCHANGED <<store, bySecret, byName, byScope>>
  /\ UNCHANGED notOps

StartDelete(t, keyId) ==
  /\ ops[t].pc = "idle"
  /\ ops' = [ops EXCEPT ![t] =
               [op |-> "delete", pc |-> "afterGet", keyId |-> keyId,
                arg |-> EmptyMap, existing |-> StorageGet(Storage, keyId),
                ret |-> Undefined]]
  /\ UNCHANGED <<store, bySecret, byName, byScope>>
  /\ UNCHANGED notOps

\* `if (!existing) return false; await this.removeIndexes(existing)`: the
\* indexes of the record read earlier are removed, up to the await.
OpAfterGet(t) ==
  /\ ops[t].pc = "afterGet"
  /\ IF ops[t].existing = {}
     THEN /\ ops' = [ops EXCEPT ![t].pc = "done", ![t].ret = "false"]
          /\ UNCHANGED <<store, bySecret, byName, byScope>>
     ELSE /\ Install(RemoveIndexes(Storage, CHOOSE kp \in ops[t].existing : TRUE))
          /\ ops' = [ops EXCEPT ![t].pc = "afterRemove"]
  /\ UNCHANGED notOps

\* update: `updated = {...existing, ...updates}; await this.set(updated);
\* return true`.  delete: `return this.store.delete(keyId)`.
OpAfterRemove(t) ==
  /\ ops[t].pc = "afterRemove"
  /\ IF ops[t].op = "update"
     THEN /\ Install(StorageSet(Storage,
                       MergeUpdates(CHOOSE kp \in ops[t].existing : TRUE,
                                    ops[t].arg)))
          /\ ops' = [ops EXCEPT ![t].pc = "done", ![t].ret = "true"]
     ELSE /\ Install([Storage EXCEPT !.store = MapDelete(store, ops[t].keyId)])
          /\ ops' = [ops EXCEPT ![t].pc = "done",
                                ![t].ret = IF MapHas(store, ops[t].keyId)
                                           THEN "true" ELSE "false"]
  /\ UNCHANGED notOps

\* storage.set(keypoint): it has no await, so it runs as one step.
StartSet(t, kp) ==
  /\ ops[t].pc = "idle"
  /\ Install(StorageSet(Storage, kp))
  /\ ops' = [ops EXCEPT ![t] =
               [op |-> "set", pc |-> "done", keyId |-> kp.keyId, arg |-> kp,
                existing |-> {}, ret |-> "true"]]
  /\ UNCHANGED notOps

\* The store a call leaves when it runs from its start to its end with no
\* other call in between.
RunAlone(S, o) ==
  IF o.op = "set" THEN StorageSet(S, o.arg)
  ELSE IF ~MapHas(S.store, o.keyId) THEN S
  ELSE IF o.op = "update" THEN StorageUpdate(S, o.keyId, o.arg)
  ELSE StorageDelete(S, o.keyId)

OpsInit == ops = [t \in Tasks |-> IdleOp]

\* The clock advances by a second.
Tick ==
  /\ now < MaxTime
  /\ now' = now + 1
  /\ UNCHANGED notClock

\* A filter object as list is given it: a property that is absent is
\* Undefined, and expired is Undefined, "true" or "false".
Filter(scope, protocol, expired, name) ==
  [scope |-> scope, protocol |-> protocol, expired |-> expired, name |-> name]

\* Whether list's loop body throws on keypoint: hasScope and isExpired are
\* called on the stored record, which has them only if it is a Keypoint.
ListThrowsOn(kp, filter) ==
  ~kp.inst /\ (Truthy(filter.scope) \/ filter.expired # Undefined)

\* `filter.expired !== isExpired`: strict inequality of the filter's boolean
\* and what isExpired() returned.
ExpiredDiffers(expired, isExpired) == expired # isExpired

\* The loop body of list: whether keypoint matches the filter.
ListMatches(kp, filter, t) ==
  /\ ~(Truthy(filter.scope) /\ ~KeypointHasScope(kp, filter.scope))
  /\ ~(Truthy(filter.protocol) /\ filter.protocol \notin {"https"})
  /\ ~( /\ filter.expired # Undefined
        /\ ExpiredDiffers(filter.expired, KeypointIsExpired(kp, t)) )
  /\ ~(Truthy(filter.name) /\ kp.name # filter.name)

\* KeypointStorage.list(filter) at time t.  The results array is a set: no
\* property reads its order.
StorageList(S, filter, t) ==
  LET values == { S.store[k] : k \in DOMAIN S.store } IN
  IF \E kp \in values : ListThrowsOn(kp, filter)
  THEN [ret |-> "throws", results |-> {}]
  ELSE [ret |-> "returned",
        results |-> { kp \in values : ListMatches(kp, filter, t) }]

\* await storage.list(filter).  The call is recorded with the store and the
\* time it ran at.
List(filter) ==
  /\ LET r == StorageList(Storage, filter, now) IN
     listRet' = [called |-> TRUE, filter |-> filter, ret |-> r.ret,
                 results |-> r.results, store |-> store, at |-> now]
  /\ UNCHANGED notList

\* The keyIds cleanupExpired collects: those whose isExpired() is truthy.
ExpiredKeyIds(S, t) ==
  { k \in DOMAIN S.store : KeypointIsExpired(S.store[k], t) = "true" }

RECURSIVE DeleteAll(_, _)
DeleteAll(S, keyIds) ==
  IF keyIds = {} THEN S
  ELSE LET k == CHOOSE x \in keyIds : TRUE
       IN  DeleteAll(StorageDelete(S, k), keyIds \ {k})

\* await storage.cleanupExpired() on a KeypointStorage.  The scan calls
\* isExpired on every record before anything is deleted.
CleanupExpired ==
  /\ IF \E k \in DOMAIN store : ~store[k].inst
     THEN /\ UNCHANGED <<store, bySecret, byName, byScope>>
          /\ storeRet' = [op |-> "cleanupExpired", ret |-> "throws", count |-> 0]
     ELSE /\ Install(DeleteAll(Storage, ExpiredKeyIds(Storage, now)))
          /\ storeRet' = [op |-> "cleanupExpired", ret |-> "returned",
                          count |-> Cardinality(ExpiredKeyIds(Storage, now))]
  /\ UNCHANGED notStore

ListInit ==
  listRet = [called |-> FALSE, filter |-> Filter(Undefined, Undefined, Undefined, Undefined),
             ret |-> "returned", results |-> {}, store |-> EmptyMap, at |-> 0]

\* ----------------------------------------------------- FileKeypointStorage

\* JSON.stringify of a Date is its ISO string, which JSON.parse gives back as
\* a string.  The string of the Date n is the number -n; null (0) stays null
\* and a string stays a string.
DateToJSON(d) == IF d > 0 THEN 0 - d ELSE d

\* JSON.stringify of a stored record: its own properties, without the
\* prototype's methods.
ToJSON(kp) ==
  [keyId |-> kp.keyId, secret |-> kp.secret, name |-> kp.name,
   scopes |-> kp.scopes, expiresAt |-> DateToJSON(kp.expiresAt),
   policy |-> kp.policy, rateLimit |-> kp.rateLimit]

\* An element of the array JSON.parse returns: a plain object.
FromJSON(j) ==
  [keyId |-> j.keyId, secret |-> j.secret, name |-> j.name,
   scopes |-> j.scopes, expiresAt |-> j.expiresAt, inst |-> FALSE,
   policy |-> j.policy, rateLimit |-> j.rateLimit]

\* The file: absent, a JSON array (a set: no property reads its order), or
\* the bytes of two overlapping writes.
FileAbsent == [state |-> "absent", data |-> {}]
FileArray(data) == [state |-> "array", data |-> data]
FileTorn == [state |-> "torn", data |-> {}]

\* Array.from(this.store.values()), stringified.
StoreToJSON(m) == { ToJSON(m[k]) : k \in DOMAIN m }

\* A saveToFile call that awaits its import of fs/promises.  of is the store
\* that calls it, owner the call that awaits it.
NewSave(of, owner) ==
  [of |-> of, owner |-> owner, pc |-> "import", data |-> {}]

\* A mutating call of the first store issues saveToFile.
IssueSave(owner) ==
  /\ Len(saves) < MaxSaves
  /\ saves' = Append(saves, NewSave("first", owner))

\* storage.set(keypoint) on a FileKeypointStorage, up to saveToFile's await.
FileSet(kp) ==
  /\ Install(StorageSet(Storage, kp))
  /\ IssueSave("call")
  /\ UNCHANGED <<file, cleanup, store2, fileRet>>
  /\ UNCHANGED notFile

\* storage.update(keyId, updates) on a FileKeypointStorage: update ends in
\* this.set(updated), which is the overridden set.
FileUpdate(keyId, updates) ==
  /\ IF MapHas(store, keyId)
     THEN /\ Install(StorageUpdate(Storage, keyId, updates))
          /\ IssueSave("call")
     ELSE UNCHANGED <<store, bySecret, byName, byScope, saves>>
  /\ UNCHANGED <<file, cleanup, store2, fileRet>>
  /\ UNCHANGED notFile

\* storage.delete(keyId) on a FileKeypointStorage: `if (result) saveToFile()`.
FileDelete(keyId) ==
  /\ IF MapHas(store, keyId)
     THEN /\ Install(StorageDelete(Storage, keyId))
          /\ IssueSave("call")
     ELSE UNCHANGED <<store, bySecret, byName, byScope, saves>>
  /\ UNCHANGED <<file, cleanup, store2, fileRet>>
  /\ UNCHANGED notFile

CleanupIdle(ret) == [pc |-> "idle", expired |-> {}, ret |-> ret]

\* storage.cleanupExpired() on a FileKeypointStorage: the scan.
FileCleanupExpired ==
  /\ cleanup.pc = "idle"
  /\ cleanup' =
       IF \E k \in DOMAIN store : ~store[k].inst
       THEN CleanupIdle("throws")
       ELSE [pc |-> "deleting", expired |-> ExpiredKeyIds(Storage, now),
             ret |-> "pending"]
  /\ UNCHANGED <<store, bySecret, byName, byScope, file, saves, store2, fileRet>>
  /\ UNCHANGED notFile

\* cleanupExpired's second loop: `await this.delete(keyId)` for the next
\* collected keyId, once the delete before it (its save included) resolved.
CleanupNext ==
  /\ cleanup.pc = "deleting"
  /\ \A i \in 1..Len(saves) : saves[i].owner # "cleanup"
  /\ IF cleanup.expired = {}
     THEN /\ cleanup' = CleanupIdle("returned")
          /\ UNCHANGED <<store, bySecret, byName, byScope, saves>>
     ELSE \E k \in cleanup.expired :
            /\ cleanup' = [cleanup EXCEPT !.expired = @ \ {k}]
            /\ IF MapHas(store, k)
               THEN /\ Install(StorageDelete(Storage, k))
                    /\ IssueSave("cleanup")
               ELSE UNCHANGED <<store, bySecret, byName, byScope, saves>>
  /\ UNCHANGED <<file, store2, fileRet>>
  /\ UNCHANGED notFile

\* saveToFile resumes after its import: it takes the array of its store's
\* records and calls fs.writeFile.  The imports resolve in the order issued.
SaveSnapshot(i) ==
  /\ i \in 1..Len(saves)
  /\ saves[i].pc = "import"
  /\ \A j \in 1..(i - 1) : saves[j].pc = "writing"
  /\ saves' = [saves EXCEPT ![i].pc = "writing",
                 ![i].data = IF saves[i].of = "first" THEN StoreToJSON(store)
                             ELSE StoreToJSON(store2.store)]
  /\ UNCHANGED <<store, bySecret, byName, byScope, file, cleanup, store2, fileRet>>
  /\ UNCHANGED notFile

\* What remains of saves without its i-th element.
WithoutSave(i) ==
  SubSeq(saves, 1, i - 1) \o SubSeq(saves, i + 1, Len(saves))

\* A writeFile resolves.  Writes of one file that overlap are not ordered:
\* whichever resolves last leaves its bytes, or the file is left with bytes
\* of both.
WriteComplete(i) ==
  /\ i \in 1..Len(saves)
  /\ saves[i].pc = "writing"
  /\ \/ file' = FileArray(saves[i].data)
     \/ /\ \E j \in 1..Len(saves) :
             j # i /\ saves[j].pc = "writing" /\ saves[j].data # saves[i].data
        /\ file' = FileTorn
  /\ saves' = WithoutSave(i)
  /\ UNCHANGED <<store, bySecret, byName, byScope, cleanup, store2, fileRet>>
  /\ UNCHANGED notFile

\* A FileKeypointStorage that was not constructed yet.
NoStore2 ==
  [constructed |-> FALSE, load |-> "none", seen |-> FileAbsent,
   store |-> EmptyMap]

\* new FileKeypointStorage(filePath) on the path of the first store: the
\* constructor calls loadFromFile without awaiting it.  seen is the file as
\* it is at the construction.
Construct2 ==
  /\ ~store2.constructed
  /\ store2' = [constructed |-> TRUE, load |-> "reading", seen |-> file,
                store |-> EmptyMap]
  /\ UNCHANGED <<store, bySecret, byName, byScope, file, saves, cleanup, fileRet>>
  /\ UNCHANGED notFile

\* loadFromFile resumes with what readFile read: each parsed item is set (and
\* the store saved after it); a file that is absent or does not parse is
\* replaced by a save of the store as it is.
LoadFromFile ==
  /\ store2.load = "reading"
  /\ store2' =
       IF file.state = "array"
       THEN [store2 EXCEPT !.load = "loaded",
               !.store = [k \in DOMAIN @ \cup { j.keyId : j \in file.data } |->
                            IF \E j \in file.data : j.keyId = k
                            THEN FromJSON(CHOOSE j \in file.data : j.keyId = k)
                            ELSE @[k]]]
       ELSE [store2 EXCEPT !.load = "failed"]
  /\ IF file.state = "array" /\ file.data = {}
     THEN UNCHANGED saves
     ELSE /\ Len(saves) < MaxSaves
          /\ saves' = Append(saves, NewSave("second", "load"))
  /\ UNCHANGED <<store, bySecret, byName, byScope, file, cleanup, fileRet>>
  /\ UNCHANGED notFile

\* storage.set(keypoint) on the second store, up to saveToFile's await.
Set2(kp) ==
  /\ store2.constructed
  /\ Len(saves) < MaxSaves
  /\ store2' = [store2 EXCEPT !.store = MapSet(@, kp.keyId, kp)]
  /\ saves' = Append(saves, NewSave("second", "call"))
  /\ UNCHANGED <<store, bySecret, byName, byScope, file, cleanup, fileRet>>
  /\ UNCHANGED notFile

\* await storage.get(keyId) on the second store.
Get2(keyId) ==
  /\ store2.constructed
  /\ fileRet' = [called |-> TRUE, keyId |-> keyId,
                 ret |-> IF MapHas(store2.store, keyId)
                         THEN {store2.store[keyId]} ELSE {},
                 seen |-> store2.seen, load |-> store2.load]
  /\ UNCHANGED <<store, bySecret, byName, byScope, file, saves, cleanup, store2>>
  /\ UNCHANGED notFile

\* The first store after its constructor's load has settled on a path that
\* held no file: the load's catch block has saved the empty store.
FileInit ==
  /\ file = FileArray({})
  /\ saves = <<>>
  /\ cleanup = CleanupIdle("returned")
  /\ store2 = NoStore2
  /\ fileRet = [called |-> FALSE, keyId |-> "", ret |-> {}, seen |-> FileAbsent,
                load |-> "none"]

\* --------------------------------------------------------------- Validator

\* request.query is undefined: the request object has no query property.
NoQuery == "<no query object>"

\* The requests validate is tried with.  idHeader and secretHeader are
\* request.headers['x-keypoint-id'] and ['x-keypoint-secret']; query is
\* NoQuery, or request.query.keypointId.
Requests ==
  [idHeader : {Undefined, "", "k1", "k2"},
   query : {NoQuery, Undefined, "k1"},
   secretHeader : {Undefined, "", "s1", "s2"}]

Pending == [ret |-> "pending", class |-> "", message |-> ""]
Returned(v) == [ret |-> v, class |-> "", message |-> ""]
Thrown(class, message) == [ret |-> "throws", class |-> class, message |-> message]

\* new KeypointContext(request), before validate is called on it.  got,
\* isValid and the fields after them are validate's locals and what the
\* model records about the call: the number of storage.get calls, the store
\* as it was at that call, and the time of the expiry check.
NewContext(request) ==
  [pc |-> "idle", request |-> request, keypoint |-> {}, result |-> Pending,
   keypointId |-> Undefined, got |-> {}, isValid |-> FALSE,
   lookups |-> 0, lookupStore |-> EmptyMap, checkedAt |-> 0]

\* KeypointValidator.extractKeypointId reads request.query.keypointId when the
\* header is falsy, which throws a TypeError when request.query is undefined.
ExtractThrows(request) ==
  ~Truthy(request.idHeader) /\ request.query = NoQuery

\* KeypointValidator.extractKeypointId, when it does not throw.
ExtractKeypointId(request) ==
  IF Truthy(request.idHeader) THEN request.idHeader ELSE request.query

\* KeypointValidator.verifySecret
VerifySecretAlwaysValid(kp, providedSecret) == TRUE

VerifySecret(kp, providedSecret) == kp.secret = providedSecret

\* if (request.headers['x-keypoint-secret'])
SecretProvided(request) == Truthy(request.secretHeader)

\* validate(context) on a fresh context, up to its first await: the identity
\* is extracted and storage.get is called.
ValidateCall(request) ==
  LET c == NewContext(request)
      id == ExtractKeypointId(request)
  IN  IF ExtractThrows(request)
      THEN [c EXCEPT !.pc = "done",
                     !.result = Thrown("TypeError", "Cannot read properties of undefined")]
      ELSE IF ~Truthy(id)
      THEN [c EXCEPT !.pc = "done",
                     !.result = Thrown("KeypointError", "Keypoint header required")]
      ELSE [c EXCEPT !.pc = "awaitGet", !.keypointId = id,
                     !.got = StorageGet(Storage, id),
                     !.lookups = 1, !.lookupStore = store]

Validate(request) ==
  /\ ctx.pc \in {"idle", "done"}
  /\ ctx' = ValidateCall(request)
  /\ UNCHANGED notValidator

\* validate resumes with the keypoint storage.get resolved to: the null and
\* expiry checks, then the call of verifySecret or, without a secret, the end.
AfterGet(c, t) ==
  IF c.got = {}
  THEN [c EXCEPT !.pc = "done",
                 !.result = Thrown("KeypointError", "Invalid keypoint")]
  ELSE LET kp == CHOOSE k \in c.got : TRUE IN
    IF ~kp.inst
    THEN [c EXCEPT !.pc = "done", !.checkedAt = t,
                   !.result = Thrown("TypeError", "keypoint.isExpired is not a function")]
    ELSE IF KeypointIsExpired(kp, t) = "true"
    THEN [c EXCEPT !.pc = "done", !.checkedAt = t,
                   !.result = Thrown("KeypointError", "Keypoint expired")]
    ELSE IF SecretProvided(c.request)
    THEN [c EXCEPT !.pc = "awaitVerify", !.checkedAt = t,
                   !.isValid = VerifySecret(kp, c.request.secretHeader)]
    ELSE [c EXCEPT !.pc = "done", !.checkedAt = t,
                   !.keypoint = c.got, !.result = Returned("true")]

ValidateAfterGet ==
  /\ ctx.pc = "awaitGet"
  /\ ctx' = AfterGet(ctx, now)
  /\ UNCHANGED notValidator

\* validate resumes with what verifySecret resolved to.
AfterVerify(c) ==
  IF ~c.isValid
  THEN [c EXCEPT !.pc = "done",
                 !.result = Thrown("KeypointError", "Invalid secret")]
  ELSE [c EXCEPT !.pc = "done", !.keypoint = c.got,
                 !.result = Returned("true")]

ValidateAfterVerify ==
  /\ ctx.pc = "awaitVerify"
  /\ ctx' = AfterVerify(ctx)
  /\ UNCHANGED notValidator

ValidatorInit == ctx = NewContext([idHeader |-> Undefined, query |-> NoQuery,
                                   secretHeader |-> Undefined])

\* ------------------------------------------------------------ ScopeManager

\* Some sequence holding the elements of the set S once each: the order in
\* which a JavaScript Set is iterated, which no result below depends on.
RECURSIVE SetToSeq(_)
SetToSeq(S) ==
  IF S = {} THEN <<>>
  ELSE LET x == CHOOSE y \in S : TRUE IN <<x>> \o SetToSeq(S \ {x})

\* The while loop of ScopeManager.getInheritedScopes.
RECURSIVE InheritedLoop(_, _, _)
InheritedLoop(h, queue, inherited) ==
  IF queue = <<>> THEN inherited
  ELSE LET current == Head(queue)
           children == IF MapHas(h, current) THEN h[current] ELSE {}
           fresh == children \ inherited
       IN  InheritedLoop(h, Tail(queue) \o SetToSeq(fresh), inherited \cup fresh)

\* ScopeManager.getInheritedScopes
GetInheritedScopesWithSelf(h, scope) == InheritedLoop(h, <<scope>>, {scope})

GetInheritedScopes(h, scope) == InheritedLoop(h, <<scope>>, {})

\* ScopeManager.hasScope
HasScopeFromAvailable(h, availableScopes, requiredScope) ==
  \/ "*" \in availableScopes
  \/ requiredScope \in availableScopes
  \/ \E a \in availableScopes : requiredScope \in GetInheritedScopes(h, a)

HasScope(h, availableScopes, requiredScope) ==
  \/ "*" \in availableScopes
  \/ requiredScope \in availableScopes
  \/ \E inheritedScope \in GetInheritedScopes(h, requiredScope) :
       inheritedScope \in availableScopes

\* ScopeManager.expandScopes.  The arrays it takes and returns are sets: the
\* result is Array.from of a Set, and no caller reads the order.
ExpandScopesShallow(h, scopes) == scopes

ExpandScopes(h, scopes) ==
  UNION { {scope} \cup GetInheritedScopes(h, scope) : scope \in scopes }

\* ScopeManager.reduceScopes
ReduceScopes(h, scopes) ==
  { scope \in scopes :
      ~ \E inheritedScope \in GetInheritedScopes(h, scope) :
          scope # inheritedScope /\ inheritedScope \in scopes }

\* The hierarchy initializeDefaultScopes defines.
DefaultHierarchy ==
  [s \in {"admin", "write", "api:internal"} |->
     CASE s = "admin" -> {"read", "write", "*"}
       [] s = "write" -> {"read"}
       [] s = "api:internal" -> {"api:private", "api:public"}]

\* The scopes inheritance edges are added between, and queries are made with.
GraphScopes == {"admin", "write", "read"}

\* scopeManager.addInheritance(parentScope, childScopes)
AddInheritance(parentScope, childScopes) ==
  /\ scopeHierarchy' =
       MapSet(scopeHierarchy, parentScope,
              (IF MapHas(scopeHierarchy, parentScope)
               THEN scopeHierarchy[parentScope] ELSE {}) \cup childScopes)
  /\ UNCHANGED scopeRet
  /\ UNCHANGED notScope

\* What the last call of a ScopeManager query was given and returned:
\* available and required (hasScope), scope (getInheritedScopes), scopes
\* (expandScopes, reduceScopes); ret is a boolean result, result a set
\* result, and hierarchy the scopeHierarchy the call ran on.
ScopeReturn(op, availableScopes, requiredScope, scopes, ret, result) ==
  [called |-> TRUE, op |-> op, available |-> availableScopes,
   required |-> requiredScope, scopes |-> scopes, ret |-> ret,
   result |-> result, hierarchy |-> scopeHierarchy]

\* scopeManager.hasScope(availableScopes, requiredScope)
HasScopeCall(availableScopes, requiredScope) ==
  /\ scopeRet' =
       ScopeReturn("hasScope", availableScopes, requiredScope, {},
                   HasScope(scopeHierarchy, availableScopes, requiredScope), {})
  /\ UNCHANGED scopeHierarchy
  /\ UNCHANGED notScope

\* scopeManager.getInheritedScopes(scope)
GetInheritedScopesCall(scope) ==
  /\ scopeRet' =
       ScopeReturn("getInheritedScopes", {}, scope, {}, FALSE,
                   GetInheritedScopes(scopeHierarchy, scope))
  /\ UNCHANGED scopeHierarchy
  /\ UNCHANGED notScope

\* scopeManager.expandScopes(scopes)
ExpandScopesCall(scopes) ==
  /\ scopeRet' =
       ScopeReturn("expandScopes", {}, "", scopes, FALSE,
                   ExpandScopes(scopeHierarchy, scopes))
  /\ UNCHANGED scopeHierarchy
  /\ UNCHANGED notScope

\* scopeManager.reduceScopes(scopes)
ReduceScopesCall(scopes) ==
  /\ scopeRet' =
       ScopeReturn("reduceScopes", {}, "", scopes, FALSE,
                   ReduceScopes(scopeHierarchy, scopes))
  /\ UNCHANGED scopeHierarchy
  /\ UNCHANGED notScope

ScopeInit ==
  /\ scopeHierarchy = DefaultHierarchy
  /\ scopeRet = [called |-> FALSE, op |-> "", available |-> {}, required |-> "",
                 scopes |-> {}, ret |-> FALSE, result |-> {},
                 hierarchy |-> DefaultHierarchy]

\* -------------------------------------------------------------- PolicyRule

\* A string built from parts (a template literal) is the sequence of its
\* parts: '' is <<>>, and a reason that is undefined is NoReason.
NoReason == <<Undefined>>

\* `reason || other`: the truthiness of a reason.
ReasonTruthy(reason) == reason # NoReason /\ reason # <<>>

\* String.prototype.toUpperCase on the methods the model uses.
ToUpperCase(m) ==
  CASE m = "get" -> "GET"
    [] m = "trace" -> "TRACE"
    [] OTHER -> m

\* new PolicyRule(name, evaluator, options).  kind names the evaluator:
\*   "allow" returns {allowed: true}; "deny" returns {allowed: false, reason};
\*   "empty" returns {}; "undefined" returns nothing; "throwsError" throws
\*   new Error(message); "throwsNull" throws (or rejects with) null;
\*   "method", "scope" and "rateLimit" are the BuiltInRules of those names.
PolicyRule(name, kind, priority, enabled) ==
  [name |-> name, kind |-> kind, priority |-> priority, enabled |-> enabled,
   reason |-> NoReason, message |-> "", scope |-> "", methods |-> {},
   limit |-> 0, windowSeconds |-> 0]

\* BuiltInRules.methodRule(allowedMethods)
MethodRule(allowedMethods) ==
  [PolicyRule("method_check", "method", 0, TRUE) EXCEPT !.methods = allowedMethods]

\* BuiltInRules.scopeRule(requiredScope)
ScopeRule(requiredScope) ==
  [PolicyRule("scope_check", "scope", 0, TRUE) EXCEPT !.scope = requiredScope]

\* BuiltInRules.rateLimitRule(limit, windowSeconds)
RateLimitRule(limit, windowSeconds) ==
  [PolicyRule("rate_limit", "rateLimit", 0, TRUE) EXCEPT
     !.limit = limit, !.windowSeconds = windowSeconds]

\* What an evaluator hands back: an object {allowed, reason}, undefined, or a
\* thrown value.
RawObject(allowed, reason) ==
  [how |-> "object", allowed |-> allowed, reason |-> reason, message |-> ""]
RawUndefined ==
  [how |-> "undefined", allowed |-> Undefined, reason |-> NoReason, message |-> ""]
RawThrowsError(message) ==
  [how |-> "throwsError", allowed |-> Undefined, reason |-> NoReason,
   message |-> message]
RawThrowsNull ==
  [how |-> "throwsNull", allowed |-> Undefined, reason |-> NoReason, message |-> ""]

\* KeypointContext.getKeypointId() || ctx.ip
RateKey(context) ==
  IF context.keypoint # {} /\ \A kp \in context.keypoint : Truthy(kp.keyId)
  THEN (CHOOSE kp \in context.keypoint : TRUE).keyId
  ELSE context.ip

\* entry.timestamps.filter(t => t > windowStart)
KeepsTimestampInclusive(t, windowStart) == t >= windowStart

KeepsTimestamp(t, windowStart) == t > windowStart

\* if (entry.timestamps.length >= limit)
LimitReachedOff(count, limit) == count > limit

LimitReached(count, limit) == count >= limit

\* The evaluator of rateLimitRule: the raw result, the closure Map after the
\* call and whether the call was granted.
RateLimitEvaluator(rule, context, reqs, t) ==
  LET key == RateKey(context)
      windowStart == t - rule.windowSeconds
      Keep(x) == KeepsTimestamp(x, windowStart)
      old == IF MapHas(reqs, key) THEN reqs[key] ELSE <<>>
      timestamps == SelectSeq(old, Keep)
  IN  IF LimitReached(Len(timestamps), rule.limit)
      THEN [raw |-> RawObject("false", <<"Rate limit exceeded">>),
            requests |-> IF MapHas(reqs, key) THEN MapSet(reqs, key, timestamps)
                         ELSE reqs,
            granted |-> FALSE]
      ELSE [raw |-> RawObject("true", NoReason),
            requests |-> MapSet(reqs, key, Append(timestamps, t)),
            granted |-> TRUE]

\* The evaluator of scopeRule, through KeypointContext.hasScope.
ScopeEvaluator(rule, context) ==
  IF context.keypoint = {}
  THEN RawObject("false", <<"Required scope: ", rule.scope>>)
  ELSE LET kp == CHOOSE k \in context.keypoint : TRUE IN
    IF ~kp.inst
    THEN RawThrowsError("this.keypoint.hasScope is not a function")
    ELSE IF ~KeypointHasScope(kp, rule.scope)
    THEN RawObject("false", <<"Required scope: ", rule.scope>>)
    ELSE RawObject("true", NoReason)

\* The evaluator of methodRule.  The reason's tail (`. Allowed: ` and the
\* joined list of allowed methods) is left out: no property reads it.
MethodEvaluator(rule, context) ==
  IF ToUpperCase(context.method) \notin rule.methods
  THEN RawObject("false", <<"Method ", context.method, " not allowed">>)
  ELSE RawObject("true", NoReason)

\* this.evaluator(context) for the evaluators that hold no state.
Evaluator(rule, context) ==
  CASE rule.kind = "allow" -> RawObject("true", NoReason)
    [] rule.kind = "deny" -> RawObject("false", rule.reason)
    [] rule.kind = "empty" -> RawObject(Undefined, NoReason)
    [] rule.kind = "undefined" -> RawUndefined
    [] rule.kind = "throwsError" -> RawThrowsError(rule.message)
    [] rule.kind = "throwsNull" -> RawThrowsNull
    [] rule.kind = "method" -> MethodEvaluator(rule, context)
    [] rule.kind = "scope" -> ScopeEvaluator(rule, context)

\* What PolicyRule.evaluate makes of the evaluator's raw result.  propagated:
\* evaluate itself rejects, with the TypeError that reading error.message of
\* a thrown null raises inside the catch block.
RuleResult(allowed, reason, propagated) ==
  [allowed |-> allowed, reason |-> reason, propagated |-> propagated]

WrapRaw(raw) ==
  CASE raw.how = "object" ->
         RuleResult(raw.allowed # "false",
                    IF ReasonTruthy(raw.reason) THEN raw.reason ELSE <<>>, FALSE)
    [] raw.how = "undefined" ->
         RuleResult(FALSE,
                    <<"Rule evaluation failed: ",
                      "Cannot read properties of undefined (reading 'allowed')">>,
                    FALSE)
    [] raw.how = "throwsError" ->
         RuleResult(FALSE, <<"Rule evaluation failed: ", raw.message>>, FALSE)
    [] raw.how = "throwsNull" ->
         RuleResult(FALSE, NoReason, TRUE)

\* PolicyRule.evaluate on a disabled rule: { allowed: true, rule }
DisabledResultDeny == RuleResult(FALSE, NoReason, FALSE)

DisabledResult == RuleResult(TRUE, NoReason, FALSE)

\* ------------------------------------------------------------ PolicyEngine

Procs == {"p1", "p2"}

\* The context a request is evaluated with: its keypoint (null is {}), ip
\* and method.
Context(keypoint, ip, method) ==
  [keypoint |-> keypoint, ip |-> ip, method |-> method]

\* What evaluate returned.  reason is NoReason and metadata is Undefined when
\* the returned object has no such property; a metadata object is "object".
NoDecision ==
  [ret |-> "pending", allowed |-> FALSE, reason |-> NoReason,
   metadata |-> Undefined]
Decision(allowed, reason, metadata) ==
  [ret |-> "returned", allowed |-> allowed, reason |-> reason,
   metadata |-> metadata]
Rejected ==
  [ret |-> "throws", allowed |-> FALSE, reason |-> NoReason,
   metadata |-> Undefined]

\* policyEngine.allow(config): the policy function of a config with the
\* properties scope, method and protocol (Undefined when absent).
AllowPolicy(scope, method, protocol) ==
  [kind |-> "allow", scope |-> scope, method |-> method, protocol |-> protocol]

\* A policy function written by the application, which returns
\* { allowed: false, reason: 'custom', metadata: {} }.
CustomPolicy ==
  [kind |-> "custom", scope |-> Undefined, method |-> Undefined,
   protocol |-> Undefined]

\* The function policyEngine.allow(config) returns, called with a context
\* whose keypoint is kp: the decision it returns, or Rejected when it throws
\* (kp.hasScope or kp.validateProtocol is not a function).
AllowPolicyResult(config, kp, context) ==
  IF Truthy(config.scope) /\ ~kp.inst THEN Rejected
  ELSE IF Truthy(config.scope) /\ ~KeypointHasScope(kp, config.scope)
  THEN Decision(FALSE, <<"Insufficient scope. Required: ", config.scope>>,
                Undefined)
  ELSE IF Truthy(config.method) /\ config.method # context.method
  THEN Decision(FALSE, <<"Method ", context.method, " not allowed">>, Undefined)
  ELSE IF Truthy(config.protocol) /\ ~kp.inst THEN Rejected
  ELSE IF Truthy(config.protocol)
          /\ ~KeypointValidateProtocol(kp, config.protocol)
  THEN Decision(FALSE, <<"Protocol not allowed">>, Undefined)
  ELSE Decision(TRUE, NoReason, Undefined)

\* A policy function written by the application, which throws.
ThrowingPolicy ==
  [kind |-> "throws", scope |-> Undefined, method |-> Undefined,
   protocol |-> Undefined]

\* await policy(context)
PolicyResult(policy, kp, context) ==
  IF policy.kind = "allow" THEN AllowPolicyResult(policy, kp, context)
  ELSE IF policy.kind = "throws" THEN Rejected
  ELSE Decision(FALSE, <<"custom">>, "object")

\* The policy of a record that has no metadata property: reading
\* `context.keypoint.metadata.policy` throws a TypeError.
NoMetadataObject == "<no metadata object>"

MetadataThrows(context) ==
  \E kp \in context.keypoint : kp.policy = NoMetadataObject

\* if (context.keypoint) { policyName = context.keypoint.metadata.policy;
\*   if (policyName && this.policies.has(policyName)) ...
NamedPolicyNever(context) == FALSE

NamedPolicyApplies(context) ==
  \E kp \in context.keypoint : Truthy(kp.policy) /\ MapHas(policies, kp.policy)

\* An evaluate call that has not started.  idx is the position of the rule
\* being evaluated, result its result; invoked lists the positions of the
\* rules whose evaluator was run and results every rule result so far;
\* policyCalls counts the calls of a named policy function.
IdleEval ==
  [pc |-> "idle", context |-> Context({}, "", ""), idx |-> 0,
   result |-> DisabledResult, invoked |-> <<>>, results |-> <<>>,
   policyCalls |-> 0, decision |-> NoDecision]

\* if (!result.allowed) return {...}
StopsNever(result) == FALSE

Stops(result) == ~result.allowed

\* The part of evaluate after the loop: the named policy of the context's
\* keypoint decides if there is one, and the decision is allowed otherwise.
AfterRules(e) ==
  IF MetadataThrows(e.context)
  THEN [e EXCEPT !.pc = "done", !.decision = Rejected]
  ELSE IF NamedPolicyApplies(e.context)
  THEN LET kp == CHOOSE k \in e.context.keypoint : TRUE IN
       [e EXCEPT !.pc = "done", !.policyCalls = @ + 1,
                 !.decision = PolicyResult(policies[kp.policy], kp, e.context)]
  ELSE [e EXCEPT !.pc = "done", !.decision = Decision(TRUE, <<>>, "object")]

\* `await rule.evaluate(context)` for the rule at position i, up to the await:
\* the evaluator (if the rule is enabled) has run.
CallRule(e, i) ==
  LET rule == rules[i]
      rate == RateLimitEvaluator(rule, e.context, requests, now)
      raw == IF rule.kind = "rateLimit" THEN rate.raw
             ELSE Evaluator(rule, e.context)
      res == IF rule.enabled THEN WrapRaw(raw) ELSE DisabledResult
      ran == rule.enabled /\ rule.kind = "rateLimit"
  IN  [eval |-> [e EXCEPT !.pc = "awaitRule", !.idx = i, !.result = res,
                          !.invoked = IF rule.enabled THEN Append(@, i) ELSE @,
                          !.results = Append(@, res)],
       requests |-> IF ran THEN rate.requests ELSE requests,
       rateLog |-> IF ran
                   THEN Append(rateLog, [key |-> RateKey(e.context), t |-> now,
                                         allowed |-> rate.granted])
                   ELSE rateLog]

\* Whether the step of e that comes next runs the rate-limit evaluator.
RunsRateLimit(i) ==
  i <= Len(rules) /\ rules[i].enabled /\ rules[i].kind = "rateLimit"

Proceed(p, e, i) ==
  IF i <= Len(rules)
  THEN LET c == CallRule(e, i) IN
       /\ RunsRateLimit(i) => Len(rateLog) < MaxCalls
       /\ ev' = [ev EXCEPT ![p] = c.eval]
       /\ requests' = c.requests
       /\ rateLog' = c.rateLog
  ELSE /\ ev' = [ev EXCEPT ![p] = AfterRules(e)]
       /\ UNCHANGED <<requests, rateLog>>

\* policyEngine.addPolicy(name, policyFn)
AddPolicy(name, policyFn) ==
  /\ policies' = MapSet(policies, name, policyFn)
  /\ UNCHANGED <<rules, ev, requests, rateLog>>
  /\ UNCHANGED notPolicy

\* policyEngine.addRule(rule).  The model holds one rate-limit closure, so at
\* most one rate-limit rule is registered.
AddRule(rule) ==
  /\ Len(rules) < MaxRules
  /\ rule.kind = "rateLimit" =>
       \A i \in 1..Len(rules) : rules[i].kind # "rateLimit"
  /\ rules' = Append(rules, rule)
  /\ UNCHANGED <<policies, ev, requests, rateLog>>
  /\ UNCHANGED notPolicy

\* rule.enable() on the rule registered at position i
Enable(i) ==
  /\ i \in 1..Len(rules)
  /\ ~rules[i].enabled
  /\ rules' = [rules EXCEPT ![i].enabled = TRUE]
  /\ UNCHANGED <<policies, ev, requests, rateLog>>
  /\ UNCHANGED notPolicy

\* rule.disable() on the rule registered at position i
Disable(i) ==
  /\ i \in 1..Len(rules)
  /\ rules[i].enabled
  /\ rules' = [rules EXCEPT ![i].enabled = FALSE]
  /\ UNCHANGED <<policies, ev, requests, rateLog>>
  /\ UNCHANGED notPolicy

\* policyEngine.evaluate(context), up to its first await (or to its end when
\* no rule is registered).
Evaluate(p, context) ==
  /\ ev[p].pc \in {"idle", "done"}
  /\ Proceed(p, [IdleEval EXCEPT !.context = context], 1)
  /\ UNCHANGED <<rules, policies>>
  /\ UNCHANGED notPolicy

\* evaluate resumes with the result of the rule it awaited: it returns the
\* denial, or goes on to the next rule, or finishes.
Resume(p) ==
  IF ev[p].result.propagated
  THEN /\ ev' = [ev EXCEPT ![p].pc = "done", ![p].decision = Rejected]
       /\ UNCHANGED <<requests, rateLog>>
  ELSE IF Stops(ev[p].result)
  THEN /\ ev' = [ev EXCEPT ![p].pc = "done",
                   ![p].decision =
                      Decision(FALSE,
                               IF ReasonTruthy(ev[p].result.reason)
                               THEN ev[p].result.reason
                               ELSE <<"Policy violation">>,
                               "object")]
       /\ UNCHANGED <<requests, rateLog>>
  ELSE Proceed(p, ev[p], ev[p].idx + 1)

EvaluateResume(p) ==
  /\ ev[p].pc = "awaitRule"
  /\ Resume(p)
  /\ UNCHANGED <<rules, policies>>
  /\ UNCHANGED notPolicy

\* Time passes between two steps.
Elapse(d) ==
  /\ now + d <= MaxClock
  /\ now' = now + d
  /\ UNCHANGED notClock

PolicyInit ==
  /\ rules = <<>>
  /\ policies = [n \in {} |-> CustomPolicy]
  /\ ev = [p \in Procs |-> IdleEval]
  /\ requests = [k \in {} |-> <<>>]
  /\ rateLog = <<>>

\* ------------------------------------------------------------- RateLimiter

\* options.window of the RateLimiter the framework registers, in
\* milliseconds.
RateLimiterWindow == 60000

\* Date.now(), in milliseconds, at the clock's second t.
DateNow(t) == t * 1000

\* The number a / b of JavaScript's division, which does not round: the pair
\* of a and b.  For one b two quotients are equal exactly when their a are.
Quotient(a, b) == <<a, b>>

\* `rate:${keypoint.keyId}:${Date.now() / this.window}`
LimitKey(kp, t) ==
  <<"rate:", kp.keyId, ":", Quotient(DateNow(t), RateLimiterWindow)>>

\* RateLimiter.process(context, next) at time t with the Map lim: whether
\* next is called, and the Map after the call.
RateLimiterProcess(context, lim, t) ==
  IF context.keypoint = {}
  THEN [passed |-> TRUE, limits |-> lim]
  ELSE LET kp == CHOOSE k \in context.keypoint : TRUE
           limitKey == LimitKey(kp, t)
           current == IF MapHas(lim, limitKey) THEN lim[limitKey] ELSE 0
           limit == kp.rateLimit.requests
       IN  IF current >= limit
           THEN [passed |-> FALSE, limits |-> lim]
           ELSE [passed |-> TRUE, limits |-> MapSet(lim, limitKey, current + 1)]

\* The plugin is run for a request: process throws Error('Rate limit
\* exceeded') or calls next.
Process(context) ==
  /\ Len(limiterLog) < MaxCalls
  /\ LET r == RateLimiterProcess(context, limits, now) IN
     /\ limits' = r.limits
     /\ limiterLog' = Append(limiterLog,
                             [keypoint |-> context.keypoint, t |-> now,
                              passed |-> r.passed])
  /\ UNCHANGED notLimiter

LimiterInit ==
  /\ limits = [k \in {} |-> 0]
  /\ limiterLog = <<>>

\* -------------------------------------------------------------- KeypointJS

\* A chain that executes the route before the policy check.
MiddlewareChainRouteFirst(requireKeypoint) ==
  <<"hooks", "protocol">>
  \o (IF requireKeypoint THEN <<"validation">> ELSE <<>>)
  \o <<"route", "policy", "plugins", "response">>

\* this.middlewareChain as initializeLayers builds it with enableCORS off:
\* the layers by name, in the order of the use() calls.
MiddlewareChain(requireKeypoint) ==
  <<"hooks", "protocol">>
  \o (IF requireKeypoint THEN <<"validation">> ELSE <<>>)
  \o <<"policy", "plugins", "route", "response">>

\* router.routes: the keys `${method}:${path}` of the registered handlers.
Routes == { <<"GET", ":", "/health">> }

Paths == {"/health", "/missing"}

\* The server before its first request.  trace lists what happened to the
\* request being handled; status is the status of the response handleRequest
\* returned, 0 while there is none; served counts the requests.
IdlePipe(chain) ==
  [chain |-> chain, pc |-> "idle", index |-> 0,
   request |-> [idHeader |-> Undefined, query |-> NoQuery,
                secretHeader |-> Undefined],
   path |-> "", protocol |-> "", trace |-> <<>>, status |-> 0, served |-> 0]

\* defaultErrorHandler: `error.code || 500`.  KeypointError and PolicyError
\* carry a code; a TypeError and an Error built by `new Error(message, n)`
\* carry none.
ErrorStatus(class) ==
  CASE class = "KeypointError" -> 401
    [] class = "PolicyError" -> 403
    [] OTHER -> 500

\* A middleware throws: handleRequest's catch returns the error response.
Failed(pp, status) == [pp EXCEPT !.pc = "done", !.status = status]

\* `return next(ctx)`: runMiddlewareChain(ctx, index + 1), which returns once
\* index is past the chain; handleRequest then returns ctx.response, which
\* the Context constructor created with status 200.
Advance(pp) ==
  IF pp.index + 1 > Len(pp.chain)
  THEN [pp EXCEPT !.pc = "done", !.index = @ + 1, !.status = 200]
  ELSE [pp EXCEPT !.pc = "run", !.index = @ + 1]

\* What the pipeline's actions leave alone.
notPipe ==
  <<now, storeVars, scopeVars, decisionVars, listRet, fileVars, lateVars>>

\* handleRequest(request, response): a KeypointContext is made and the chain
\* is entered at its first layer.
HandleRequest(request, path, protocol) ==
  /\ pipe.pc \in {"idle", "done"}
  /\ pipe.served < MaxRequests
  /\ pipe' = [pipe EXCEPT !.pc = "run", !.index = 1, !.request = request,
                          !.path = path, !.protocol = protocol,
                          !.trace = <<>>, !.status = 0, !.served = @ + 1]
  /\ ctx' = NewContext(request)
  /\ UNCHANGED <<policyVars, limiterVars>>
  /\ UNCHANGED notPipe

\* Layers 0, 1 and 7: hooks, protocol processing and response headers, which
\* pass the request on.
PassLayer ==
  /\ pipe.pc = "run"
  /\ pipe.chain[pipe.index] \in {"hooks", "protocol", "response"}
  /\ pipe' = Advance(pipe)
  /\ UNCHANGED <<ctx, policyVars, limiterVars>>
  /\ UNCHANGED notPipe

\* Layer 3 once validate has settled on context c: a failure is rethrown;
\* after a success ctx.validateOrigin() (true: the requests carry no origin)
\* and ctx.validateProtocol() are checked and the next layer is entered.
AfterValidate(pp, c) ==
  IF c.pc # "done" THEN [pp EXCEPT !.pc = "validating"]
  ELSE IF c.result.ret # "true" THEN Failed(pp, ErrorStatus(c.result.class))
  ELSE IF \E kp \in c.keypoint : ~KeypointValidateProtocol(kp, pp.protocol)
  THEN Failed(pp, ErrorStatus("KeypointError"))
  ELSE Advance([pp EXCEPT !.trace = Append(@, "validated")])

\* Layer 3: `await this.keypointValidator.validate(ctx)`, up to its first
\* await.
ValidationLayer ==
  /\ pipe.pc = "run"
  /\ pipe.chain[pipe.index] = "validation"
  /\ ctx' = ValidateCall(pipe.request)
  /\ pipe' = AfterValidate(pipe, ctx')
  /\ UNCHANGED <<policyVars, limiterVars>>
  /\ UNCHANGED notPipe

\* Layer 3: validate resumes from one of its awaits.
ValidationResume ==
  /\ pipe.pc = "validating"
  /\ ctx' = IF ctx.pc = "awaitGet" THEN AfterGet(ctx, now) ELSE AfterVerify(ctx)
  /\ pipe' = AfterValidate(pipe, ctx')
  /\ UNCHANGED <<policyVars, limiterVars>>
  /\ UNCHANGED notPipe

\* Layer 4 once evaluate has settled on e: a decision that is not allowed is
\* thrown as a PolicyError, and a rejection of evaluate propagates.
AfterEvaluate(pp, e) ==
  IF e.pc # "done" THEN [pp EXCEPT !.pc = "evaluating"]
  ELSE IF e.decision.ret = "throws" THEN Failed(pp, ErrorStatus("TypeError"))
  ELSE IF ~e.decision.allowed THEN Failed(pp, ErrorStatus("PolicyError"))
  ELSE Advance([pp EXCEPT !.trace = Append(@, "allowed")])

\* Layer 4: `await this.policyEngine.evaluate(ctx)`, up to its first await.
PolicyLayer ==
  /\ pipe.pc = "run"
  /\ pipe.chain[pipe.index] = "policy"
  /\ Proceed("p1", [IdleEval EXCEPT
                      !.context = Context(ctx.keypoint, "10.0.0.1", "GET")], 1)
  /\ pipe' = AfterEvaluate([pipe EXCEPT !.trace = Append(@, "evaluate")],
                           ev'["p1"])
  /\ UNCHANGED <<ctx, rules, policies, limiterVars>>
  /\ UNCHANGED notPipe

\* Layer 4: evaluate resumes with the result of the rule it awaited.
PolicyResume ==
  /\ pipe.pc = "evaluating"
  /\ ev["p1"].pc = "awaitRule"
  /\ Resume("p1")
  /\ pipe' = AfterEvaluate(pipe, ev'["p1"])
  /\ UNCHANGED <<ctx, rules, policies, limiterVars>>
  /\ UNCHANGED notPipe

\* Layer 5: pluginManager.process runs the RateLimiter the constructor
\* registered; its Error('Rate limit exceeded', 429) carries no code.
PluginLayer ==
  /\ pipe.pc = "run"
  /\ pipe.chain[pipe.index] = "plugins"
  /\ Len(limiterLog) < MaxCalls
  /\ LET r == RateLimiterProcess(Context(ctx.keypoint, "10.0.0.1", "GET"),
                                 limits, now) IN
     /\ limits' = r.limits
     /\ limiterLog' = Append(limiterLog,
                             [keypoint |-> ctx.keypoint, t |-> now,
                              passed |-> r.passed])
     /\ pipe' = IF r.passed THEN Advance(pipe)
                ELSE Failed(pipe, ErrorStatus("Error"))
  /\ UNCHANGED <<ctx, policyVars>>
  /\ UNCHANGED notPipe

\* Layer 6: router.handle(ctx) runs the handler registered for the request's
\* method and path, or throws Error('Route not found', 404).
RouteLayer ==
  /\ pipe.pc = "run"
  /\ pipe.chain[pipe.index] = "route"
  /\ pipe' = IF <<"GET", ":", pipe.path>> \in Routes
             THEN Advance([pipe EXCEPT !.trace = Append(@, "handler")])
             ELSE Failed(pipe, ErrorStatus("Error"))
  /\ UNCHANGED <<ctx, policyVars, limiterVars>>
  /\ UNCHANGED notPipe

PipeInit == pipe = IdlePipe(MiddlewareChain(TRUE))

\* ---------------------------------------------------------- AccessDecision

\* An object's metadata: a map from property names to values.
NoMetadata == [k \in {} |-> ""]

\* { ...first, ...second }
Spread(first, second) ==
  [k \in DOMAIN first \cup DOMAIN second |->
     IF k \in DOMAIN second THEN second[k] ELSE first[k]]

\* new AccessDecision().  The timestamp is left out.
NewAccessDecision ==
  [allowed |-> FALSE, reason |-> "", metadata |-> NoMetadata,
   violations |-> <<>>, evaluatedRules |-> <<>>]

\* AccessDecision.allow(reason, metadata)
AccessDecisionAllow(reason, metadata) ==
  [NewAccessDecision EXCEPT !.allowed = TRUE, !.reason = reason,
                            !.metadata = metadata]

\* AccessDecision.deny(reason, violations, metadata)
AccessDecisionDeny(reason, violations, metadata) ==
  [NewAccessDecision EXCEPT !.reason = reason, !.violations = violations,
                            !.metadata = metadata]

\* decision.addRuleResult(ruleName, result)
AddRuleResultTo(d, ruleName, result) ==
  [d EXCEPT
     !.evaluatedRules =
        Append(@, [rule |-> ruleName, allowed |-> result.allowed,
                   reason |-> result.reason]),
     !.violations =
        IF ~result.allowed
        THEN Append(@, [rule |-> ruleName, reason |-> result.reason])
        ELSE @]

\* merged.reason = this.allowed ? otherDecision.reason : this.reason
MergeReasonOfOther(this, otherDecision) == otherDecision.reason

MergeReason(this, otherDecision) ==
  IF this.allowed THEN otherDecision.reason ELSE this.reason

\* this.merge(otherDecision): the new decision it returns.
Merged(this, otherDecision) ==
  [allowed |-> this.allowed /\ otherDecision.allowed,
   reason |-> MergeReason(this, otherDecision),
   metadata |-> Spread(this.metadata, otherDecision.metadata),
   violations |-> this.violations \o otherDecision.violations,
   evaluatedRules |-> this.evaluatedRules \o otherDecision.evaluatedRules]

\* The rule results decisions are given.
RuleOutcomes ==
  { [allowed |-> TRUE, reason |-> ""], [allowed |-> FALSE, reason |-> "refused"] }

\* decisions.a = AccessDecision.allow(reason, metadata)
AllowDecision(reason, metadata) ==
  /\ decisions' = [decisions EXCEPT !["a"] = AccessDecisionAllow(reason, metadata)]
  /\ UNCHANGED merged
  /\ UNCHANGED notDecision

\* decisions.a = AccessDecision.deny(reason, [], metadata)
DenyDecision(reason, metadata) ==
  /\ decisions' =
       [decisions EXCEPT !["a"] = AccessDecisionDeny(reason, <<>>, metadata)]
  /\ UNCHANGED merged
  /\ UNCHANGED notDecision

\* decisions.a.addRuleResult(ruleName, result)
AddRuleResult(ruleName, result) ==
  /\ Len(decisions["a"].evaluatedRules) < MaxEntries
  /\ decisions' =
       [decisions EXCEPT !["a"] = AddRuleResultTo(@, ruleName, result)]
  /\ UNCHANGED merged
  /\ UNCHANGED notDecision

\* decisions[x].merge(decisions[y]).  merged records the operands as they
\* were before the call and as they are after it, and the decision returned.
Merge(x, y) ==
  /\ merged' = [called |-> TRUE,
                this |-> decisions[x], otherDecision |-> decisions[y],
                thisAfter |-> decisions[x], otherAfter |-> decisions[y],
                result |-> Merged(decisions[x], decisions[y])]
  /\ UNCHANGED decisions
  /\ UNCHANGED notDecision

DecisionInit ==
  /\ decisions = [d \in {"a", "b"} |-> NewAccessDecision]
  /\ merged = [called |-> FALSE,
               this |-> NewAccessDecision, otherDecision |-> NewAccessDecision,
               thisAfter |-> NewAccessDecision, otherAfter |-> NewAccessDecision,
               result |-> NewAccessDecision]

\* ---------------------------------------------------------- specifications

\* ----------------------------------------------------------- PluginManager

\* What the PluginManager and the WebSocketGuard leave alone.
notLate ==
  <<now, storeVars, ctx, scopeVars, policyVars, decisionVars, listRet,
    fileVars, pipe, limiterVars, ops>>

\* The class names of the plugins that are registered.  Every plugin has a
\* process method that calls next.
PluginNames == {"RateLimiter", "AuditLogger", "plugin"}

\* middleware.toString(): the source text of the arrow function register
\* pushes, which is the same for every plugin,
\*   async (ctx, next) => { if (!plugin.enabled) return next(ctx);
\*                          return plugin.process(ctx, next); }
\* and whether that text includes pluginName.
MiddlewareTextIncludes(pluginName) == pluginName \in {"plugin"}

\* this.middlewareChain.findIndex(m => m.toString().includes(pluginName)):
\* 0 when no middleware is found (-1 in the code, where indexes start at 0).
FindIndexByPlugin(chain, pluginName) ==
  IF \E i \in 1..Len(chain) : chain[i] = pluginName
  THEN CHOOSE i \in 1..Len(chain) :
         chain[i] = pluginName /\ \A j \in 1..(i - 1) : chain[j] # pluginName
  ELSE 0

FindIndex(chain, pluginName) ==
  IF chain # <<>> /\ MiddlewareTextIncludes(pluginName) THEN 1 ELSE 0

\* The sequence q without its i-th element (q itself when i is 0).
Splice(q, i) ==
  IF i = 0 THEN q ELSE SubSeq(q, 1, i - 1) \o SubSeq(q, i + 1, Len(q))

InSeq(q, x) == \E i \in 1..Len(q) : q[i] = x

\* pluginManager.register(plugin).  plugins holds the keys of the Map in
\* insertion order, chain the plugin each middleware closes over.
Register(pluginName) ==
  /\ Len(pm.chain) < MaxPlugins
  /\ pm' = IF InSeq(pm.plugins, pluginName)
           THEN [pm EXCEPT !.op = "register", !.name = pluginName,
                           !.ret = "throws"]
           ELSE [pm EXCEPT !.plugins = Append(@, pluginName),
                           !.chain = Append(@, pluginName),
                           !.op = "register", !.name = pluginName,
                           !.ret = "this"]
  /\ UNCHANGED <<notLate, ws>>

\* pluginManager.unregister(pluginName)
Unregister(pluginName) ==
  /\ pm' = IF ~InSeq(pm.plugins, pluginName)
           THEN [pm EXCEPT !.op = "unregister", !.name = pluginName,
                           !.ret = "false"]
           ELSE [pm EXCEPT
                   !.chain = Splice(@, FindIndex(@, pluginName)),
                   !.plugins = Splice(@, FindIndexByPlugin(@, pluginName)),
                   !.op = "unregister", !.name = pluginName, !.ret = "true"]
  /\ UNCHANGED <<notLate, ws>>

\* pluginManager.process(context, next): every middleware of the chain runs
\* in order and calls its plugin's process; invoked lists those plugins.
ProcessPlugins ==
  /\ pm' = [pm EXCEPT !.op = "process", !.name = "", !.ret = "next",
                      !.invoked = pm.chain]
  /\ UNCHANGED <<notLate, ws>>

PluginInit ==
  pm = [plugins |-> <<>>, chain |-> <<>>, invoked |-> <<>>, op |-> "new",
        name |-> "", ret |-> ""]

\* ---------------------------------------------------------- WebSocketGuard

\* options.pingInterval, in milliseconds.
PingInterval == 30000

\* The ids generateConnectionId gives the connections: each is used once.
ConnectionIds == {"c1", "c2"}

\* this.handleDisconnection(connectionId) on the guard g: callbacks counts,
\* per connection, the runs of the disconnection callbacks.
HandleDisconnection(g, connectionId) ==
  IF connectionId \in g.connections
  THEN [g EXCEPT !.connections = @ \ {connectionId},
                 !.callbacks[connectionId] = @ + 1]
  ELSE g

\* `idleTime > timeout` of checkConnections at time t
IdleTooLong(g, connectionId, t) ==
  DateNow(t) - DateNow(g.lastActivity[connectionId]) > PingInterval * 2

\* wss.on('connection'): the connection is registered under a fresh id.
Connection(connectionId) ==
  /\ ws.socket[connectionId] = "none"
  /\ ws' = [ws EXCEPT !.connections = @ \cup {connectionId},
                      !.socket[connectionId] = "open",
                      !.lastActivity[connectionId] = now]
  /\ UNCHANGED <<notLate, pm>>

\* ws.on('message') and ws.on('pong'): connection.lastActivity = new Date()
Activity(connectionId) ==
  /\ ws.socket[connectionId] = "open"
  /\ ws' = [ws EXCEPT !.lastActivity[connectionId] = now]
  /\ UNCHANGED <<notLate, pm>>

\* ws.on('error'): the socket raised an error; its close event follows.
ErrorEvent(connectionId) ==
  /\ ws.socket[connectionId] = "open"
  /\ ws' = [HandleDisconnection(ws, connectionId) EXCEPT
              !.socket[connectionId] = "errored"]
  /\ UNCHANGED <<notLate, pm>>

\* ws.on('close'): the socket closed, by itself, after an error or after
\* terminate().
CloseEvent(connectionId) ==
  /\ ws.socket[connectionId] \in {"open", "errored", "terminated"}
  /\ ws' = [HandleDisconnection(ws, connectionId) EXCEPT
              !.socket[connectionId] = "closed"]
  /\ UNCHANGED <<notLate, pm>>

\* checkConnections(), run by the interval timer: connections idle for too
\* long are terminated and deleted, the others are pinged.
CheckConnections ==
  /\ ws' = [ws EXCEPT
              !.connections =
                 { c \in @ : ~IdleTooLong(ws, c, now) },
              !.socket =
                 [c \in ConnectionIds |->
                    IF c \in ws.connections /\ IdleTooLong(ws, c, now)
                       /\ ws.socket[c] = "open"
                    THEN "terminated" ELSE ws.socket[c]]]
  /\ UNCHANGED <<notLate, pm>>

GuardInit ==
  ws = [connections |-> {},
        socket |-> [c \in ConnectionIds |-> "none"],
        lastActivity |-> [c \in ConnectionIds |-> 0],
        callbacks |-> [c \in ConnectionIds |-> 0]]

LateInit == OpsInit /\ PluginInit /\ GuardInit

vars ==
  <<now, storeVars, ctx, scopeVars, policyVars, decisionVars, listRet,
    fileVars, pipe, limiterVars, lateVars>>

\* The Store alone, under every sequence of its calls.
InitStore ==
  /\ now = 0
  /\ StoreInit
  /\ ValidatorInit
  /\ ScopeInit
  /\ PolicyInit
  /\ DecisionInit
  /\ ListInit
  /\ FileInit
  /\ PipeInit
  /\ LimiterInit
  /\ LateInit

NextStore ==
  \/ \E kp \in StoreKeypoints : Set(kp)
  \/ SetNoKeyId
  \/ \E k \in KeyIds, u \in Updates : Update(k, u)
  \/ \E k \in KeyIds : Delete(k)

SpecStore == InitStore /\ [][NextStore]_vars

\* The keypoints and updates the Store is given while requests are validated:
\* one keyId, with or without a secret, with or without an expiry.
ValKeypoints ==
  { kp \in Keypoints : kp.keyId = "k1" /\ kp.name = "" /\ kp.scopes = {"admin"} }

ValUpdates == { u \in Updates : DOMAIN u \subseteq {"secret"} }

\* Requests validated one after the other while the Store is changed and the
\* clock advances between validate's awaits.
InitValidator == InitStore

NextValidator ==
  \/ \E kp \in ValKeypoints : Set(kp)
  \/ \E u \in ValUpdates : Update("k1", u)
  \/ Delete("k1")
  \/ Tick
  \/ \E r \in Requests : Validate(r)
  \/ ValidateAfterGet
  \/ ValidateAfterVerify

SpecValidator == InitValidator /\ [][NextValidator]_vars

\* The ScopeManager alone: edges are added and hasScope is asked.
InitScope == InitStore

NextScope ==
  \/ \E parent \in GraphScopes, children \in SUBSET GraphScopes :
       AddInheritance(parent, children)
  \/ \E available \in SUBSET (GraphScopes \cup {"*"}), required \in GraphScopes :
       HasScopeCall(available, required)
  \/ \E scope \in GraphScopes : GetInheritedScopesCall(scope)
  \/ \E scopes \in SUBSET GraphScopes : ExpandScopesCall(scopes)
  \/ \E scopes \in SUBSET GraphScopes : ReduceScopesCall(scopes)

SpecScope == InitScope /\ [][NextScope]_vars

\* The PolicyEngine with rules of every kind of evaluator, registered in any
\* order, also while a request is being evaluated.
DenyRule(priority, enabled) ==
  [PolicyRule("deny", "deny", priority, enabled) EXCEPT
     !.reason = <<"denied by rule">>]

PolicyRules ==
  { PolicyRule("allow", "allow", pr, TRUE) : pr \in {0, 5} }
  \cup { DenyRule(pr, en) : pr \in {0, 5}, en \in BOOLEAN }
  \cup { PolicyRule("silent", "deny", 0, TRUE),
         PolicyRule("empty", "empty", 0, TRUE),
         PolicyRule("nothing", "undefined", 0, TRUE),
         [PolicyRule("boom", "throwsError", 0, TRUE) EXCEPT !.message = "boom"],
         PolicyRule("reject", "throwsNull", 0, TRUE),
         MethodRule({"GET", "POST"}) }

PolicyContexts == { Context({}, "10.0.0.1", m) : m \in {"get", "TRACE"} }

InitPolicy == InitStore

NextPolicy ==
  \/ \E r \in PolicyRules : AddRule(r)
  \/ \E c \in PolicyContexts : Evaluate("p1", c)
  \/ EvaluateResume("p1")

SpecPolicy == InitPolicy /\ [][NextPolicy]_vars

\* The rate-limit rule with limit 2 and window 60 seconds, registered with a
\* method rule before or after it; two requests are evaluated concurrently.
RateRule == RateLimitRule(2, 60)

RateKeypoint == Keypoint("k1", "s1", "", {"admin"}, 0)

RateContexts ==
  { Context({RateKeypoint}, "10.0.0.1", "GET"), Context({}, "10.0.0.1", "GET") }

RateKeys == { RateKey(c) : c \in RateContexts }

Elapses == {59, 60}

InitRate ==
  /\ now = 0
  /\ StoreInit
  /\ ValidatorInit
  /\ ScopeInit
  /\ rules \in { <<RateRule, MethodRule({"GET"})>>, <<MethodRule({"GET"}), RateRule>> }
  /\ policies = [n \in {} |-> CustomPolicy]
  /\ ev = [p \in Procs |-> IdleEval]
  /\ requests = [k \in {} |-> <<>>]
  /\ rateLog = <<>>
  /\ DecisionInit
  /\ ListInit
  /\ FileInit
  /\ PipeInit
  /\ LimiterInit
  /\ LateInit

NextRate ==
  \/ \E p \in Procs, c \in RateContexts : Evaluate(p, c)
  \/ \E p \in Procs : EvaluateResume(p)
  \/ \E d \in Elapses : Elapse(d)

SpecRate == InitRate /\ [][NextRate]_vars

\* The pipeline: a keypoint with scopes ['admin'] is stored, a request naming
\* it is validated, and the validated context is evaluated against scope
\* rules.
AdminKeypoint == Keypoint("k1", "s1", "", {"admin"}, 0)

PipelineRequests ==
  { r \in Requests : r.idHeader = "k1" /\ r.query = NoQuery
                     /\ r.secretHeader \in {"s1", "s2"} }

PipelineScopes == {"admin", "write", "read", "nonexistent"}

\* Layer 4 of the pipeline: policyEngine.evaluate(ctx) on the context
\* validate attached a keypoint to.
EvaluateValidated(p) ==
  /\ ctx.pc = "done"
  /\ ctx.result.ret = "true"
  /\ Evaluate(p, Context(ctx.keypoint, "10.0.0.1", "GET"))

InitPipeline == InitStore

NextPipeline ==
  \/ Set(AdminKeypoint)
  \/ \E r \in PipelineRequests : Validate(r)
  \/ ValidateAfterGet
  \/ ValidateAfterVerify
  \/ \E sc \in PipelineScopes : AddRule(ScopeRule(sc))
  \/ EvaluateValidated("p1")
  \/ EvaluateResume("p1")

SpecPipeline == InitPipeline /\ [][NextPipeline]_vars

\* The PolicyEngine with named policies: policies are registered under names
\* (the empty name included) while requests of keypoints whose
\* metadata.policy is absent, empty, registered or unregistered are evaluated.
NamedRules == { PolicyRule("allow", "allow", 0, TRUE), DenyRule(0, TRUE) }

PolicyNames == {"", "admin"}

PolicyFns ==
  { AllowPolicy("admin", Undefined, Undefined),
    AllowPolicy(Undefined, "GET", Undefined),
    AllowPolicy(Undefined, Undefined, "http"),
    AllowPolicy("read", Undefined, "https"),
    CustomPolicy }

NamedKeypoints ==
  { KeypointWithPolicy(AdminKeypoint, pn) : pn \in {Undefined, "", "admin", "ghost"} }

NamedContexts ==
  { Context({}, "10.0.0.1", "GET") }
  \cup { Context({kp}, "10.0.0.1", m) : kp \in NamedKeypoints, m \in {"GET", "POST"} }

InitNamedPolicy == InitStore

NextNamedPolicy ==
  \/ \E r \in NamedRules : AddRule(r)
  \/ \E n \in PolicyNames, f \in PolicyFns : AddPolicy(n, f)
  \/ \E c \in NamedContexts : Evaluate("p1", c)
  \/ EvaluateResume("p1")

SpecNamedPolicy == InitNamedPolicy /\ [][NextNamedPolicy]_vars

\* AccessDecision.merge: decision a is built by allow, deny and addRuleResult,
\* decision b is one of a few finished decisions, and each is merged with the
\* other and with itself.
OtherDecisions ==
  { AccessDecisionAllow("allowed by b", [source |-> "b"]),
    AddRuleResultTo(AccessDecisionAllow("allowed by b", NoMetadata), "rule-b",
                    [allowed |-> TRUE, reason |-> ""]),
    AccessDecisionDeny("denied by b", <<>>, [source |-> "b"]),
    AddRuleResultTo(AccessDecisionDeny("denied by b", <<>>, NoMetadata),
                    "rule-b", [allowed |-> FALSE, reason |-> "refused by b"]) }

InitDecision ==
  /\ now = 0
  /\ StoreInit
  /\ ValidatorInit
  /\ ScopeInit
  /\ PolicyInit
  /\ decisions \in [{"a", "b"} -> {NewAccessDecision} \cup OtherDecisions]
  /\ decisions["a"] = NewAccessDecision
  /\ decisions["b"] \in OtherDecisions
  /\ merged = [called |-> FALSE,
               this |-> NewAccessDecision, otherDecision |-> NewAccessDecision,
               thisAfter |-> NewAccessDecision, otherAfter |-> NewAccessDecision,
               result |-> NewAccessDecision]
  /\ ListInit
  /\ FileInit
  /\ PipeInit
  /\ LimiterInit
  /\ LateInit

NextDecision ==
  \/ \E m \in {NoMetadata, [source |-> "a"]} : AllowDecision("allowed by a", m)
  \/ \E m \in {NoMetadata, [source |-> "a"]} : DenyDecision("denied by a", m)
  \/ \E r \in RuleOutcomes : AddRuleResult("rule-a", r)
  \/ \E x \in {"a", "b"}, y \in {"a", "b"} : Merge(x, y)

SpecDecision == InitDecision /\ [][NextDecision]_vars

\* The Store while keypoints with and without an expiry are set and updated,
\* the clock advances, and list and cleanupExpired are called.
ListKeypoints ==
  { Keypoint(k, "s1", "", {"read"}, e) : k \in KeyIds, e \in ExpiryTimes }

ListUpdates == { u \in Updates : DOMAIN u = {"name"} /\ u.name = "n1" }

Filters ==
  { Filter(sc, Undefined, ex, Undefined) :
      sc \in {Undefined, "read"}, ex \in {Undefined, "true", "false"} }

InitList == InitStore

NextList ==
  \/ \E kp \in ListKeypoints : Set(kp)
  \/ \E k \in KeyIds, u \in ListUpdates : Update(k, u)
  \/ Tick
  \/ \E f \in Filters : List(f)
  \/ CleanupExpired

SpecList == InitList /\ [][NextList]_vars

\* A FileKeypointStorage whose mutating calls are issued without awaiting one
\* another.
FileKeyIds == {"k1"}

FileKeypoints ==
  { Keypoint(k, "s1", "", {"read"}, e) : k \in FileKeyIds, e \in ExpiryTimes }

InitFile == InitStore

NextFile ==
  \/ \E kp \in FileKeypoints : FileSet(kp)
  \/ \E k \in FileKeyIds, u \in ListUpdates : FileUpdate(k, u)
  \/ \E k \in FileKeyIds : FileDelete(k)
  \/ FileCleanupExpired
  \/ CleanupNext
  \/ \E i \in 1..MaxSaves : SaveSnapshot(i)
  \/ \E i \in 1..MaxSaves : WriteComplete(i)
  \/ Tick

SpecFile == InitFile /\ [][NextFile]_vars

\* A FileKeypointStorage that keypoints are set, updated and deleted in, and,
\* once its calls have completed, a second FileKeypointStorage constructed on
\* the same path and read from.
InitReload == InitStore

\* A call of the first store, made before the second store exists.
WriterSet(kp) == ~store2.constructed /\ FileSet(kp)
WriterUpdate(keyId, updates) == ~store2.constructed /\ FileUpdate(keyId, updates)
WriterDelete(keyId) == ~store2.constructed /\ FileDelete(keyId)

\* The second store is constructed once the first store's saves have
\* resolved.
ConstructReader == saves = <<>> /\ Construct2

NextReload ==
  \/ \E kp \in FileKeypoints : WriterSet(kp)
  \/ \E k \in FileKeyIds, u \in ListUpdates : WriterUpdate(k, u)
  \/ \E k \in FileKeyIds : WriterDelete(k)
  \/ \E i \in 1..MaxSaves : SaveSnapshot(i)
  \/ \E i \in 1..MaxSaves : WriteComplete(i)
  \/ ConstructReader
  \/ LoadFromFile
  \/ \E k \in FileKeyIds : Get2(k)

SpecReload == InitReload /\ [][NextReload]_vars

\* The server: requests with and without a keypoint id are handled one after
\* the other, with requireKeypoint set or not, while the keypoint is stored
\* and updated and rules are registered.
ServerRequests ==
  { r \in Requests : /\ r.idHeader \in {Undefined, "k1"}
                     /\ r.query \in {NoQuery, Undefined}
                     /\ r.secretHeader = Undefined }

Protocols == {"https", "http"}

ServerRules == { PolicyRule("allow", "allow", 0, TRUE), DenyRule(0, TRUE) }

InitServer ==
  /\ now = 0
  /\ StoreInit
  /\ ValidatorInit
  /\ ScopeInit
  /\ PolicyInit
  /\ DecisionInit
  /\ ListInit
  /\ FileInit
  /\ pipe \in { IdlePipe(MiddlewareChain(b)) : b \in BOOLEAN }
  /\ LimiterInit
  /\ LateInit

\* The server's one rule is registered, while no request is in the policy
\* layer.
ServerAddRule(rule) == rules = <<>> /\ pipe.pc # "evaluating" /\ AddRule(rule)

NextServer ==
  \/ Set(AdminKeypoint)
  \/ \E u \in ListUpdates : Update("k1", u)
  \/ \E r \in ServerRules : ServerAddRule(r)
  \/ \E r \in ServerRequests, path \in Paths, protocol \in Protocols :
       HandleRequest(r, path, protocol)
  \/ PassLayer
  \/ ValidationLayer
  \/ ValidationResume
  \/ PolicyLayer
  \/ PolicyResume
  \/ PluginLayer
  \/ RouteLayer

SpecServer == InitServer /\ [][NextServer]_vars

\* The RateLimiter plugin alone: requests of a keypoint whose
\* rateLimit.requests is 2, and requests without a keypoint, are processed
\* as time passes.
LimiterKeypoint == KeypointWithRateLimit(RateKeypoint, 2, 60)

LimiterContexts ==
  { Context({LimiterKeypoint}, "10.0.0.1", "GET"), Context({}, "10.0.0.1", "GET") }

InitLimiter == InitStore

NextLimiter ==
  \/ \E c \in LimiterContexts : Process(c)
  \/ \E d \in Elapses : Elapse(d)

SpecLimiter == InitLimiter /\ [][NextLimiter]_vars

\* Rules that are disabled and enabled again: a rate-limit rule with limit 1
\* and a rule that denies, while two requests are evaluated and time passes.
ToggleRules == <<RateLimitRule(1, 60), DenyRule(0, TRUE)>>

ToggleContext == Context({RateKeypoint}, "10.0.0.1", "GET")

InitToggle ==
  /\ now = 0
  /\ StoreInit
  /\ ValidatorInit
  /\ ScopeInit
  /\ rules = ToggleRules
  /\ policies = [n \in {} |-> CustomPolicy]
  /\ ev = [p \in Procs |-> IdleEval]
  /\ requests = [k \in {} |-> <<>>]
  /\ rateLog = <<>>
  /\ DecisionInit
  /\ ListInit
  /\ FileInit
  /\ PipeInit
  /\ LimiterInit
  /\ LateInit

NextToggle ==
  \/ \E i \in 1..Len(ToggleRules) : Enable(i)
  \/ \E i \in 1..Len(ToggleRules) : Disable(i)
  \/ \E p \in Procs : Evaluate(p, ToggleContext)
  \/ \E p \in Procs : EvaluateResume(p)
  \/ Elapse(60)

SpecToggle == InitToggle /\ [][NextToggle]_vars

\* Evaluation of contexts whose keypoint is a Keypoint, a plain record (as
\* update and a file load leave it) or a record without metadata, with named
\* policies among which one throws.
RecordKeypoints ==
  { KeypointWithPolicy([AdminKeypoint EXCEPT !.inst = i], pn) :
      i \in BOOLEAN, pn \in {Undefined, "admin", NoMetadataObject} }

RecordContexts ==
  { Context({}, "10.0.0.1", "GET") }
  \cup { Context({kp}, "10.0.0.1", "GET") : kp \in RecordKeypoints }

RecordPolicyFns ==
  { AllowPolicy("admin", Undefined, Undefined),
    AllowPolicy(Undefined, "GET", "https"),
    CustomPolicy,
    ThrowingPolicy }

InitRecordPolicy == InitStore

NextRecordPolicy ==
  \/ \E r \in NamedRules : AddRule(r)
  \/ \E f \in RecordPolicyFns : AddPolicy("admin", f)
  \/ \E c \in RecordContexts : Evaluate("p1", c)
  \/ EvaluateResume("p1")

SpecRecordPolicy == InitRecordPolicy /\ [][NextRecordPolicy]_vars

\* Two Store calls on the keyId of a stored keypoint, interleaved at their
\* awaits.
ConcKeypoint == Keypoint("k1", "s1", "n1", {"admin"}, 0)

ConcStorage == StorageSet([store |-> EmptyMap, bySecret |-> EmptyMap,
                           byName |-> EmptyMap, byScope |-> EmptyMap],
                          ConcKeypoint)

ConcUpdates == { u \in Updates : DOMAIN u \subseteq {"secret", "name", "scopes"} }

ConcSets == { ConcKeypoint, Keypoint("k1", "", "", {"read"}, 0) }

InitConcurrent ==
  /\ now = 0
  /\ store = ConcStorage.store
  /\ bySecret = ConcStorage.bySecret
  /\ byName = ConcStorage.byName
  /\ byScope = ConcStorage.byScope
  /\ storeRet = [op |-> "set", ret |-> "true"]
  /\ ValidatorInit
  /\ ScopeInit
  /\ PolicyInit
  /\ DecisionInit
  /\ ListInit
  /\ FileInit
  /\ PipeInit
  /\ LimiterInit
  /\ LateInit

NextConcurrent ==
  \/ \E t \in Tasks, u \in ConcUpdates : StartUpdate(t, "k1", u)
  \/ \E t \in Tasks : StartDelete(t, "k1")
  \/ \E t \in Tasks, kp \in ConcSets : StartSet(t, kp)
  \/ \E t \in Tasks : OpAfterGet(t)
  \/ \E t \in Tasks : OpAfterRemove(t)

SpecConcurrent == InitConcurrent /\ [][NextConcurrent]_vars

\* A FileKeypointStorage constructed on a file that holds a record, with set
\* calls of other keyIds issued while its load is under way.
PreloadRecord == ToJSON(Keypoint("k1", "s1", "n1", {"admin"}, 0))

PreloadKeypoints == { kp \in StoreKeypoints : kp.keyId = "k2" /\ kp.name = "" }

InitPreload ==
  /\ now = 0
  /\ StoreInit
  /\ ValidatorInit
  /\ ScopeInit
  /\ PolicyInit
  /\ DecisionInit
  /\ ListInit
  /\ file = FileArray({PreloadRecord})
  /\ saves = <<>>
  /\ cleanup = CleanupIdle("returned")
  /\ store2 = NoStore2
  /\ fileRet = [called |-> FALSE, keyId |-> "", ret |-> {}, seen |-> FileAbsent,
                load |-> "none"]
  /\ PipeInit
  /\ LimiterInit
  /\ LateInit

NextPreload ==
  \/ Construct2
  \/ LoadFromFile
  \/ \E kp \in PreloadKeypoints : Set2(kp)
  \/ \E i \in 1..MaxSaves : SaveSnapshot(i)
  \/ \E i \in 1..MaxSaves : WriteComplete(i)

SpecPreload == InitPreload /\ [][NextPreload]_vars

\* The PolicyEngine as setupBuiltInPolicies leaves it: the rate-limit and
\* method rules, and the named policies public, admin and internal.  The
\* protocol of internal is the array ['https', 'wss']: a value that is equal
\* to no protocol name.
HttpsAndWss == "['https', 'wss']"

BuiltInRules == <<RateLimitRule(100, 60),
                  MethodRule({"GET", "POST", "PUT", "DELETE", "PATCH", "OPTIONS"})>>

BuiltInPolicies ==
  [n \in {"public", "admin", "internal"} |->
     CASE n = "public" -> AllowPolicy("api:public", Undefined, "https")
       [] n = "admin" -> AllowPolicy("admin", Undefined, "https")
       [] n = "internal" -> AllowPolicy("api:internal", Undefined, HttpsAndWss)]

BuiltInContexts ==
  { Context({KeypointWithPolicy(Keypoint("k1", "s1", "", sc, 0), pn)},
            "10.0.0.1", m) :
      sc \in {{}, {"api:public"}, {"admin"}, {"api:internal"}},
      pn \in {"public", "admin", "internal"},
      m \in {"GET", "TRACE"} }

InitBuiltIn ==
  /\ now = 0
  /\ StoreInit
  /\ ValidatorInit
  /\ ScopeInit
  /\ rules = BuiltInRules
  /\ policies = BuiltInPolicies
  /\ ev = [p \in Procs |-> IdleEval]
  /\ requests = [k \in {} |-> <<>>]
  /\ rateLog = <<>>
  /\ DecisionInit
  /\ ListInit
  /\ FileInit
  /\ PipeInit
  /\ LimiterInit
  /\ LateInit

NextBuiltIn ==
  \/ \E c \in BuiltInContexts : Evaluate("p1", c)
  \/ EvaluateResume("p1")

SpecBuiltIn == InitBuiltIn /\ [][NextBuiltIn]_vars

\* Plugins registered and unregistered in any order, with requests processed
\* in between.
InitPlugins == InitStore

NextPlugins ==
  \/ \E n \in PluginNames : Register(n)
  \/ \E n \in PluginNames : Unregister(n)
  \/ ProcessPlugins

SpecPlugins == InitPlugins /\ [][NextPlugins]_vars

\* Connections that are opened, are active, close, fail and are checked by
\* the interval timer while time passes.
InitGuard == InitStore

NextGuard ==
  \/ \E c \in ConnectionIds : Connection(c)
  \/ \E c \in ConnectionIds : Activity(c)
  \/ \E c \in ConnectionIds : ErrorEvent(c)
  \/ \E c \in ConnectionIds : CloseEvent(c)
  \/ CheckConnections
  \/ \E d \in Elapses : Elapse(d)

SpecGuard == InitGuard /\ [][NextGuard]_vars

\* ------------------------------------------------------------------ claims

\* The identity a request names: the x-keypoint-id header, else the
\* keypointId query parameter.
RequestIdentity(request) ==
  IF Truthy(request.idHeader) THEN request.idHeader
  ELSE IF request.query = NoQuery THEN Undefined ELSE request.query

AttachedValidated(secretCarried) ==
  ctx.result.ret = "true" =>
    /\ ctx.pc = "done"
    /\ MapHas(ctx.lookupStore, RequestIdentity(ctx.request))
    /\ ctx.keypoint = {ctx.lookupStore[RequestIdentity(ctx.request)]}
    /\ \A kp \in ctx.keypoint :
         /\ ~(kp.expiresAt # 0 /\ ctx.checkedAt > kp.expiresAt)
         /\ secretCarried => ctx.request.secretHeader = kp.secret

C2_FailuresAreKeypointErrors ==
  ctx.pc = "done" =>
    /\ ( /\ ctx.request.idHeader = Undefined
         /\ ctx.request.query \in {NoQuery, Undefined} )
       => /\ ctx.result.ret = "throws"
          /\ ctx.result.class = "KeypointError"
          /\ ctx.lookups = 0
    /\ ( /\ MapHas(ctx.lookupStore, RequestIdentity(ctx.request))
         /\ ctx.request.secretHeader # Undefined
         /\ ctx.request.secretHeader
              # ctx.lookupStore[RequestIdentity(ctx.request)].secret )
       => /\ ctx.result.ret = "throws"
          /\ ctx.result.class = "KeypointError"
          /\ ctx.keypoint = {}

\* The scopes reachable from scope by one or more inheritance edges of h.
RECURSIVE ReachableWithin(_, _, _)
ReachableWithin(h, frontier, n) ==
  IF n = 0 THEN frontier
  ELSE LET step == UNION { h[x] : x \in frontier \cap DOMAIN h }
       IN  ReachableWithin(h, frontier \cup step, n - 1)

Descendants(h, scope) ==
  IF MapHas(h, scope)
  THEN ReachableWithin(h, h[scope], Cardinality(DOMAIN h) + 1)
  ELSE {}

\* C4: hasScope(available, required) is true whenever required is reachable
\* through inheritance edges from some scope in available; with the default
\* hierarchy hasScope(['admin'], 'write') is true and hasScope(['write'],
\* 'admin') is false.
C4_ParentImpliesDescendants ==
  (scopeRet.called /\ scopeRet.op = "hasScope") =>
    /\ (\E a \in scopeRet.available :
          scopeRet.required \in Descendants(scopeRet.hierarchy, a))
       => scopeRet.ret
    /\ ( scopeRet.hierarchy = DefaultHierarchy /\ scopeRet.available = {"write"}
         /\ scopeRet.required = "admin" )
       => ~scopeRet.ret

\* C3: end to end, a validated request of a keypoint whose scopes are
\* ['admin'] is allowed by scopeRule(s) for every scope s that admin inherits
\* (write, read), and denied for a scope with no inheritance path.
C3_ScopeRuleFollowsInheritance ==
  \A p \in Procs :
    \A j \in 1..Len(ev[p].results) :
      ( /\ rules[j].kind = "scope"
        /\ \E kp \in ev[p].context.keypoint : kp.scopes = {"admin"} )
      => ( ev[p].results[j].allowed
           <=> rules[j].scope \in {"admin"} \cup Descendants(scopeHierarchy, "admin") )

C6_EvaluatorFailureIsDeny ==
  \A p \in Procs :
    LET e == ev[p] IN
    /\ e.pc = "done" => e.decision.ret = "returned"
    /\ ( /\ e.idx >= 1
         /\ rules[e.idx].enabled
         /\ rules[e.idx].kind \in {"undefined", "throwsError", "throwsNull"} )
       => /\ ~e.result.propagated
          /\ ~e.result.allowed
          /\ Len(e.result.reason) = 2
          /\ e.result.reason[1] = "Rule evaluation failed: "

\* The runs of the rate-limit evaluator for key k, in order.
KeyLog(k) ==
  LET OfKey(entry) == entry.key = k IN SelectSeq(rateLog, OfKey)

\* No grant of an earlier call in L is within the window at call i.
NoLiveGrant(L, i) ==
  \A j \in 1..(i - 1) : L[j].allowed => L[j].t + RateRule.windowSeconds <= L[i].t

\* C9: with limit 2 and window 60, three calls in quick succession for the
\* same key yield allow, allow, deny, and a call made after the window has
\* elapsed is allowed again; denied calls do not extend the window.
C9_AllowAllowDenyThenAllow ==
  \A k \in RateKeys :
    LET L == KeyLog(k) IN
    \A i \in 1..Len(L) :
      /\ NoLiveGrant(L, i) => L[i].allowed
      /\ ( /\ NoLiveGrant(L, i)
           /\ i + 2 <= Len(L)
           /\ L[i + 2].t - L[i].t < RateRule.windowSeconds )
         => L[i].allowed /\ L[i + 1].allowed /\ ~L[i + 2].allowed

\* Three calls in the same second gave allow, allow, deny, and the call made
\* 60 seconds later was allowed.
C9_Witness ==
  \E k \in RateKeys :
    LET L == KeyLog(k) IN
    /\ Len(L) = 4
    /\ L[1].t = L[3].t
    /\ L[1].allowed /\ L[2].allowed /\ ~L[3].allowed
    /\ L[4].t = L[1].t + 60
    /\ L[4].allowed

\* C10: under any interleaving of the requests, the granted calls of one key
\* whose timestamps fall within one window of windowSeconds seconds never
\* number more than limit.
C10_NeverOverLimit ==
  \A k \in RateKeys :
    LET L == KeyLog(k) IN
    \A i \in 1..Len(L) :
      L[i].allowed =>
        Cardinality({ j \in 1..Len(L) :
                        /\ L[j].allowed
                        /\ L[j].t > L[i].t - RateRule.windowSeconds
                        /\ L[j].t <= L[i].t }) <= RateRule.limit

\* Two requests of the same key are in flight at once and one was refused.
C10_Witness ==
  /\ ev["p1"].pc = "awaitRule"
  /\ ev["p2"].pc = "awaitRule"
  /\ RateKey(ev["p1"].context) = RateKey(ev["p2"].context)
  /\ \E i \in 1..Len(rateLog) :
       rateLog[i].key = RateKey(ev["p1"].context) /\ ~rateLog[i].allowed
  /\ ev["p1"].result.allowed # ev["p2"].result.allowed

\* C7: after any sequence of set, update and delete calls, getByScope(s)
\* returns exactly the stored keypoints whose current scopes contain s.
C7_GetByScopeExact ==
  \A s \in ScopeNames :
    GetByScope(s) = { store[k] : k \in { x \in DOMAIN store : s \in store[x].scopes } }

\* C8: no entry of the bySecret, byName and byScope indexes refers to a keyId
\* that is absent from the store.
C8_NoDanglingIndexEntry ==
  /\ \A s \in DOMAIN bySecret : MapHas(store, bySecret[s])
  /\ \A n \in DOMAIN byName : \A k \in byName[n] : MapHas(store, k)
  /\ \A s \in DOMAIN byScope : \A k \in byScope[s] : MapHas(store, k)

\* The record storage.get resolved to was found and had expired when validate
\* reached its expiry check.
FoundExpired ==
  \E kp \in ctx.got : kp.expiresAt # 0 /\ ctx.checkedAt > kp.expiresAt

\* The request carries a secret header that differs from the found record's
\* secret.
WrongSecret ==
  /\ ctx.request.secretHeader # Undefined
  /\ \E kp \in ctx.got : kp.secret # ctx.request.secretHeader

\* C11: the failure of validate for an unknown keypoint id and its failure
\* for a stored, unexpired id presented with a wrong secret carry the same
\* generic invalid-keypoint message.  (The stored record is a Keypoint
\* instance: a record rewritten by update fails earlier, at its expiry check.)
C11_UnknownAndWrongSecretAlike ==
  (ctx.pc = "done" /\ ctx.lookups = 1) =>
    /\ ctx.got = {} => ctx.result.message = "Invalid keypoint"
    /\ ( /\ WrongSecret /\ ~FoundExpired /\ ctx.result.ret = "throws"
         /\ \A kp \in ctx.got : kp.inst )
       => ctx.result.message = "Invalid keypoint"

\* C12: validate checks identity, Store lookup, expiry and secret in that
\* order and reports the first check that fails: no identity fails before any
\* lookup, an unknown id fails as invalid keypoint, an expired keypoint fails
\* as expired whatever secret is presented, and an invalid-secret failure
\* means the keypoint was found and had not expired.
C12_FirstFailingCheckReported ==
  ctx.pc = "done" =>
    /\ ~Truthy(RequestIdentity(ctx.request))
       => /\ ctx.result = Thrown("KeypointError", "Keypoint header required")
          /\ ctx.lookups = 0
    /\ (ctx.lookups = 1 /\ ctx.got = {})
       => ctx.result = Thrown("KeypointError", "Invalid keypoint")
    /\ FoundExpired
       => ctx.result = Thrown("KeypointError", "Keypoint expired")
    /\ ctx.result.message = "Invalid secret"
       => ctx.got # {} /\ ~FoundExpired /\ WrongSecret

\* Every rule evaluated in e passed.
RulesPassed(e) == \A j \in 1..Len(e.results) : e.results[j].allowed

\* The keypoint of e's context carries a policy name (not undefined, not
\* empty) that is registered.
NamesRegisteredPolicy(e) ==
  \E kp \in e.context.keypoint :
    kp.policy \notin {Undefined, ""} /\ kp.policy \in DOMAIN policies

\* What C13 says of a finished evaluation e, given the registered policies.
NamedPolicyOrDefault(e) ==
  /\ (RulesPassed(e) /\ NamesRegisteredPolicy(e))
     => /\ e.policyCalls = 1
        /\ \A kp \in e.context.keypoint :
             e.decision = PolicyResult(policies[kp.policy], kp, e.context)
  /\ (RulesPassed(e) /\ ~NamesRegisteredPolicy(e))
     => /\ e.policyCalls = 0
        /\ e.decision.ret = "returned"
        /\ e.decision.allowed
  /\ ~RulesPassed(e)
     => /\ e.policyCalls = 0
        /\ e.decision.ret = "returned"
        /\ ~e.decision.allowed

C14_DecisionShape ==
  \A p \in Procs :
    (ev[p].pc = "done" /\ ev[p].decision.ret = "returned")
    => /\ ev[p].decision.allowed \in BOOLEAN
       /\ ev[p].decision.reason # NoReason
       /\ ev[p].decision.metadata = "object"

\* C15: reduceScopes(scopes) is the input minus every scope reachable through
\* inheritance from another scope of the input; from ['admin', 'read'] under
\* the default hierarchy admin is kept and read is dropped.
C15_ReduceKeepsBroader ==
  scopeRet.op = "reduceScopes" =>
    /\ scopeRet.result =
         { s \in scopeRet.scopes :
             ~ \E a \in scopeRet.scopes \ {s} : s \in Descendants(scopeRet.hierarchy, a) }
    /\ (scopeRet.hierarchy = DefaultHierarchy /\ scopeRet.scopes = {"admin", "read"})
       => scopeRet.result = {"admin"}

\* C16: for every graph addInheritance builds, cyclic ones included,
\* getInheritedScopes(scope) returns exactly the scopes reachable from scope
\* by one or more edges, and scope itself iff it lies on a cycle.
C16_InheritedIsReachable ==
  scopeRet.op = "getInheritedScopes" =>
    /\ scopeRet.result = Descendants(scopeRet.hierarchy, scopeRet.required)
    /\ scopeRet.required \in scopeRet.result
       <=> ( /\ MapHas(scopeRet.hierarchy, scopeRet.required)
             /\ \E child \in scopeRet.hierarchy[scopeRet.required] :
                  \/ child = scopeRet.required
                  \/ scopeRet.required \in Descendants(scopeRet.hierarchy, child) )

\* getInheritedScopes was asked of a scope that lies on a cycle of two or more
\* scopes.
C16_Witness ==
  /\ scopeRet.op = "getInheritedScopes"
  /\ scopeRet.required \in scopeRet.result
  /\ scopeRet.required \notin scopeRet.hierarchy[scopeRet.required]
  /\ Cardinality(scopeRet.result) >= 2

C18_ExpandIsClosure ==
  /\ scopeRet.op = "expandScopes" =>
       scopeRet.result =
         UNION { {s} \cup Descendants(scopeRet.hierarchy, s) : s \in scopeRet.scopes }
  /\ \A a \in GraphScopes : \A b \in Descendants(scopeHierarchy, a) :
       ExpandScopes(scopeHierarchy, {b}) \subseteq ExpandScopes(scopeHierarchy, {a})
  /\ scopeHierarchy = DefaultHierarchy =>
       /\ ExpandScopes(scopeHierarchy, {"read"}) \subseteq
            ExpandScopes(scopeHierarchy, {"admin"})
       /\ ExpandScopes(scopeHierarchy, {"admin"}) # {"admin"}

\* expandScopes(['admin']) was called under the default hierarchy and returned
\* read with it.
C18_Witness ==
  /\ scopeRet.op = "expandScopes"
  /\ scopeRet.hierarchy = DefaultHierarchy
  /\ scopeRet.scopes = {"admin"}
  /\ {"admin", "read", "write"} \subseteq scopeRet.result

\* C19: merge returns a decision whose allowed is the AND of both, whose
\* violations and evaluatedRules are this decision's followed by the other's,
\* and whose reason is the denying side's (this decision's when both deny) or
\* the other's when both allow; neither operand is modified.
C19_MergeIsAndConcat ==
  merged.called =>
    LET this == merged.this
        other == merged.otherDecision
        m == merged.result
    IN  /\ m.allowed = (this.allowed /\ other.allowed)
        /\ m.violations = this.violations \o other.violations
        /\ m.evaluatedRules = this.evaluatedRules \o other.evaluatedRules
        /\ m.reason = IF ~this.allowed THEN this.reason
                      ELSE IF ~other.allowed THEN other.reason
                      ELSE other.reason
        /\ merged.thisAfter = this
        /\ merged.otherAfter = other

\* Two denying decisions with different reasons and entries of their own were
\* merged.
C19_Witness ==
  /\ merged.called
  /\ ~merged.this.allowed
  /\ ~merged.otherDecision.allowed
  /\ merged.this.reason # merged.otherDecision.reason
  /\ Len(merged.this.violations) = 1
  /\ Len(merged.this.evaluatedRules) = 2
  /\ Len(merged.otherDecision.violations) = 1
  /\ merged.result.violations[1].rule = "rule-a"
  /\ merged.result.violations[2].rule = "rule-b"

\* C20: update never changes which keyIds the store holds: for an absent
\* keyId it returns false and changes nothing, and otherwise every record is
\* still stored under its own keyId, whatever fields the partial carries.
C20_UpdateKeepsKeyIds ==
  [][storeRet'.op = "update" =>
       /\ DOMAIN store' = DOMAIN store
       /\ \A k \in DOMAIN store' : store'[k].keyId = k
       /\ storeRet'.ret = "false" =>
            UNCHANGED <<store, bySecret, byName, byScope>>]_vars

\* Whether a record has expired at time t; a record whose expiresAt is null
\* never has.
HasExpired(kp, t) == kp.expiresAt # 0 /\ t > kp.expiresAt

\* C21: list({expired: e}) returns exactly the stored keypoints whose expiry
\* status equals e, a keypoint whose expiresAt is null counting as not
\* expired.  Stated for a store that holds Keypoint instances only.
C21_ListByExpiry ==
  ( /\ listRet.called
    /\ listRet.filter.expired # Undefined
    /\ listRet.filter.scope = Undefined
    /\ \A k \in DOMAIN listRet.store : listRet.store[k].inst )
  => /\ listRet.ret = "returned"
     /\ listRet.results =
          { kp \in { listRet.store[k] : k \in DOMAIN listRet.store } :
              HasExpired(kp, listRet.at) <=> listRet.filter.expired = "true" }

\* C22: in the file-backed Store, once every issued mutating call has
\* completed, the file holds exactly the array of the store's current
\* records, also when calls were issued without awaiting one another.
C22_FileHoldsStore ==
  (saves = <<>> /\ cleanup.pc = "idle")
  => file = FileArray(StoreToJSON(store))

\* C23: a record persisted to the file is returned by get on a new store
\* constructed on the same path, with identical keyId, scopes and name, also
\* when get is called right after the construction.
C23_ReloadRoundTrip ==
  fileRet.called =>
    \A j \in fileRet.seen.data :
      j.keyId = fileRet.keyId =>
        \E r \in fileRet.ret :
          r.keyId = j.keyId /\ r.scopes = j.scopes /\ r.name = j.name

\* C30: every record held by a Store, after any sequence of set (given
\* Keypoint instances), update, delete and file load, is a Keypoint: it
\* supports isExpired, hasScope and validateProtocol.
C30_RecordsAreKeypoints ==
  /\ \A k \in DOMAIN store : store[k].inst
  /\ \A k \in DOMAIN store2.store : store2.store[k].inst

\* Whether the server was built with requireKeypoint set.
RequiresKeypoint == \E i \in 1..Len(pipe.chain) : pipe.chain[i] = "validation"

Happened(event) == \E i \in 1..Len(pipe.trace) : pipe.trace[i] = event

C28_HealthCheckServed ==
  ( /\ RequiresKeypoint
    /\ pipe.pc = "done"
    /\ pipe.request.idHeader = Undefined
    /\ pipe.request.query \in {NoQuery, Undefined}
    /\ <<"GET", ":", pipe.path>> \in Routes )
  => pipe.status = 200

\* C25: a keypoint's own rateLimit {requests, window} is the limit applied to
\* its requests: a call of the keypoint that finds fewer than
\* rateLimit.requests of its granted calls within the last rateLimit.window
\* seconds is not denied by the rate-limit rule.
C25_OwnRateLimitApplies ==
  LET L == KeyLog(RateKeypoint.keyId)
      own == RateKeypoint.rateLimit
  IN  \A i \in 1..Len(L) :
        Cardinality({ j \in 1..(i - 1) :
                        L[j].allowed /\ L[j].t > L[i].t - own.window })
          < own.requests
        => L[i].allowed

\* The window of length RateLimiterWindow milliseconds that the second t
\* falls in.
WindowOf(t) == DateNow(t) \div RateLimiterWindow

\* C26: for a keypoint whose rateLimit.requests is N, at most N of its
\* requests pass the RateLimiter plugin within any one window of
\* options.window milliseconds; requests without a keypoint pass unchecked.
C26_AtMostNPerWindow ==
  \A i \in 1..Len(limiterLog) :
    LET entry == limiterLog[i] IN
    /\ entry.keypoint = {} => entry.passed
    /\ \A kp \in entry.keypoint :
         Cardinality({ j \in 1..Len(limiterLog) :
                         /\ limiterLog[j].keypoint = entry.keypoint
                         /\ limiterLog[j].passed
                         /\ WindowOf(limiterLog[j].t) = WindowOf(entry.t) })
           <= kp.rateLimit.requests

\* Whether position i is among the rules whose evaluator e has run.
Invoked(e, i) == \E k \in 1..Len(e.invoked) : e.invoked[k] = i

\* The step in which evaluate calls rule.evaluate on a rule: a disabled rule
\* reports allowed without its evaluator being run or any state of the
\* rate-limit evaluator changing; an enabled rule has its evaluator run.
RuleCallStep(p) ==
  (ev'[p] # ev[p] /\ ev'[p].pc = "awaitRule") =>
    LET i == ev'[p].idx IN
    IF ~rules[i].enabled
    THEN /\ ev'[p].result.allowed
         /\ ~ev'[p].result.propagated
         /\ ~Invoked(ev'[p], i)
         /\ requests' = requests
         /\ rateLog' = rateLog
    ELSE /\ Invoked(ev'[p], i)
         /\ rules[i].kind = "rateLimit" => Len(rateLog') = Len(rateLog) + 1

\* C27: a disabled PolicyRule always reports allowed: true and never invokes
\* its evaluator, so through PolicyEngine.evaluate a disabled rule can neither
\* deny a request nor change any state its evaluator holds; re-enabling it
\* restores evaluation.
C27_DisabledRuleIsPassedOver ==
  /\ [][\A p \in Procs : RuleCallStep(p)]_vars
  /\ [](\A p \in Procs :
          /\ \A j \in 1..Len(ev[p].results) :
               ~Invoked(ev[p], j) => ev[p].results[j].allowed
          /\ (ev[p].pc = "done" /\ ~ev[p].decision.allowed)
             => Invoked(ev[p], ev[p].idx))

\* One request passed both rules while they were disabled, and another was
\* denied by the rate-limit rule, which is enabled, after it had granted a
\* call.
C27_Witness ==
  /\ ev["p1"].pc = "done"
  /\ ev["p1"].decision.allowed
  /\ ev["p1"].invoked = <<>>
  /\ Len(ev["p1"].results) = 2
  /\ ev["p2"].pc = "done"
  /\ ~ev["p2"].decision.allowed
  /\ ev["p2"].decision.reason = <<"Rate limit exceeded">>
  /\ rules[1].enabled
  /\ Len(rateLog) = 2

\* C29: PolicyEngine.evaluate never throws, for any context: a failure inside
\* a rule or inside a named policy function (a policy that throws, a keypoint
\* record without metadata or without the Keypoint methods) surfaces as a
\* deny decision, not as an exception.
C29_EvaluateNeverThrows ==
  \A p \in Procs :
    ev[p].pc = "done" =>
      /\ ev[p].decision.ret = "returned"
      /\ (\/ MetadataThrows(ev[p].context)
          \/ \E kp \in ev[p].context.keypoint :
               /\ NamedPolicyApplies(ev[p].context)
               /\ \/ policies[kp.policy].kind = "throws"
                  \/ ~kp.inst /\ Truthy(policies[kp.policy].scope))
         => ~ev[p].decision.allowed

\* The stored keypoints whose current secret is s.
WithSecret(s) == { store[k] : k \in { x \in DOMAIN store : store[x].secret = s } }

\* C31: after any sequence of set, update and delete calls, getBySecret(s)
\* returns a stored keypoint whose current secret is s whenever such a
\* keypoint exists, and null otherwise, including when two keypoints share a
\* secret or a keypoint's secret was replaced.
C31_GetBySecretExact ==
  \A s \in Secrets \ {""} :
    IF WithSecret(s) # {}
    THEN /\ StorageGetBySecret(Storage, s) # {}
         /\ StorageGetBySecret(Storage, s) \subseteq WithSecret(s)
    ELSE StorageGetBySecret(Storage, s) = {}

\* Both tasks have made their call and both calls have returned.
BothDone == \A t \in Tasks : ops[t].pc = "done"

\* C32: concurrent Store operations on the same keyId, interleaved at their
\* await points, leave the store and its indexes in a state that some
\* sequential order of the same operations would produce: no update is lost,
\* no record reappears after a delete that returned true, and no index entry
\* is stale.
C32_ConcurrentAsSequential ==
  BothDone =>
    \/ Storage = RunAlone(RunAlone(ConcStorage, ops["t1"]), ops["t2"])
    \/ Storage = RunAlone(RunAlone(ConcStorage, ops["t2"]), ops["t1"])

\* The constructor's load has ended and no save is in flight.
Settled2 ==
  store2.constructed /\ store2.load \in {"loaded", "failed"} /\ saves = <<>>

\* C33: records already in the file when a FileKeypointStorage is constructed
\* are never lost: after the constructor's unawaited load and any set calls
\* issued in the meantime have all completed, every such record that was not
\* deleted is in both the store and the file.
C33_PreloadedRecordKept ==
  Settled2 =>
    /\ MapHas(store2.store, PreloadRecord.keyId)
    /\ file.state = "array"
    /\ \E j \in file.data : j.keyId = PreloadRecord.keyId

\* C34: an AccessDecision that has recorded at least one violation is never
\* allowed: after any sequence of addRuleResult calls on a decision (one
\* created by AccessDecision.allow included), allowed is false whenever
\* violations is non-empty.
C34_ViolationMeansDenied ==
  \A d \in DOMAIN decisions :
    decisions[d].violations # <<>> => ~decisions[d].allowed

\* C35: reduceScopes preserves the granted closure: for every input set S and
\* every inheritance graph (cyclic ones included),
\* expandScopes(reduceScopes(S)) equals expandScopes(S), and reduceScopes(S)
\* is non-empty whenever S is.
C35_ReduceKeepsClosure ==
  \A S \in SUBSET GraphScopes :
    /\ ExpandScopes(scopeHierarchy, ReduceScopes(scopeHierarchy, S))
         = ExpandScopes(scopeHierarchy, S)
    /\ S # {} => ReduceScopes(scopeHierarchy, S) # {}

\* C36: the built-in named policy 'internal' (scope api:internal, protocol
\* ['https', 'wss']) allows a request whose keypoint holds scope api:internal
\* and permits https or wss; like 'public' and 'admin', it denies only on a
\* missing scope or a protocol the keypoint does not permit.  (Every keypoint
\* here permits https.)
C36_InternalPolicyAllows ==
  \A p \in Procs :
    (ev[p].pc = "done" /\ ev[p].policyCalls = 1) =>
      \A kp \in ev[p].context.keypoint :
        ev[p].decision.allowed
          <=> KeypointHasScope(kp, policies[kp.policy].scope)

\* C37: after PluginManager.unregister(name) returns true, the unregistered
\* plugin's process method is no longer invoked by PluginManager.process for
\* any later request, and the middleware of every other registered plugin is
\* still invoked, in registration order.
C37_UnregisteredIsNotInvoked ==
  pm.op = "process" => pm.invoked = pm.plugins

\* C38: in WebSocketGuard, every connection that is removed from the
\* connection registry triggers the disconnection callbacks exactly once,
\* whether it closed, raised an error (possibly followed by a close event) or
\* was terminated by the idle check.  (A terminated socket is given until its
\* close event to have the callbacks run.)
C38_DisconnectionCalledOnce ==
  \A c \in ConnectionIds :
    /\ ws.callbacks[c] <= 1
    /\ (c \notin ws.connections /\ ws.socket[c] \in {"errored", "closed"})
       => ws.callbacks[c] = 1
====
